---- MODULE Spec2Model ----
(***************************************************************************)
(* A model of pg-magic's type generator (src/lib/createTypeGenerator.ts):  *)
(* the construction of a generator (connection pool, type mapper, schema   *)
(* catalog, view materialization) and the analysis of SQL parse trees      *)
(* (expressions, FROM items, target lists, statements) followed by the     *)
(* formatter.                                                              *)
(*                                                                         *)
(* JavaScript values are modelled as follows.                              *)
(*  - an object with optional keys is a record; an absent key is an absent *)
(*    field, `{...a, k: v}` is [k |-> v] @@ a;                             *)
(*  - an object used as an ordered dictionary (Record<string, T>, Map) is  *)
(*    a sequence of entries [k |-> key, v |-> value] in insertion order;   *)
(*  - a thrown exception is a record with an `error` field, which every    *)
(*    caller passes on unchanged.                                          *)
(***************************************************************************)
EXTENDS Integers, Sequences, FiniteSets, TLC

VARIABLES
  pc,              \* where createTypeGenerator stands
  pool,            \* the connection pool: "none", "open" or "ended"
  poolLog,         \* the calls made on the pool, in order
  db,              \* what the database answers to the three queries
  options,         \* the options createTypeGenerator is called with
  mapper,          \* local mapType of createTypeGenerator
  catalog,         \* local tablesBySchema of createTypeGenerator
  thrown,          \* the exception pending in createTypeGenerator, if any
  context,         \* the context object captured by generate
  built,           \* the context as construction built it
  lastQuery,       \* the argument of the last generate call
  lastResult,      \* what that call returned
  lastTargets      \* the result targets of each statement it analysed

vars == <<pc, pool, poolLog, db, options, mapper, catalog, thrown, context,
          built, lastQuery, lastResult, lastTargets>>

----------------------------------------------------------------------------
(* Ordered dictionaries                                                    *)

Keys(m) == [i \in 1..Len(m) |-> m[i].k]

Has(m, key) == \E i \in 1..Len(m) : m[i].k = key

IndexOf(m, key) == CHOOSE i \in 1..Len(m) : m[i].k = key

Get(m, key) == m[IndexOf(m, key)].v

(* Put as a delete followed by a set: an overwritten key moves to the end. *)
PutAtEnd(m, key, val) ==
  Append(SelectSeq(m, LAMBDA e : e.k # key), [k |-> key, v |-> val])

(* Map.set and the assignment object[key] = val: a new key is added at the *)
(* end, an existing key keeps its place and takes the new value.           *)
Put(m, key, val) ==
  IF Has(m, key)
  THEN [m EXCEPT ![IndexOf(m, key)] = [k |-> key, v |-> val]]
  ELSE Append(m, [k |-> key, v |-> val])

Values(m) == [i \in 1..Len(m) |-> m[i].v]

(* The value `undefined` stored under a key of a dictionary of tables.     *)
Undefined == [undefined |-> TRUE]

IsUndefined(x) == "undefined" \in DOMAIN x

(* Exceptions.                                                             *)
Throw(msg) == [error |-> msg]

IsErr(r) == "error" \in DOMAIN r

(* `const name = value` followed by the statements `rest` that read it.    *)
Bind(value, rest(_)) == rest(value)

TypeError == "TypeError"

RECURSIVE FirstErr(_, _)
FirstErr(rs, i) ==
  IF i > Len(rs) THEN 0
  ELSE IF IsErr(rs[i]) THEN i ELSE FirstErr(rs, i + 1)

Some(rs) == \E i \in 1..Len(rs) : rs[i].nullable

Every(rs) == \A i \in 1..Len(rs) : rs[i].nullable

ArrayOf(type) == type \o "[]"

----------------------------------------------------------------------------
(* utilities                                                               *)

(* JSON.parse(JSON.stringify(object)): a deep copy that drops the keys     *)
(* holding a function or undefined.                                        *)
DropUndefined(m) == SelectSeq(m, LAMBDA e : ~IsUndefined(e.v))

clone(object) ==
  [key \in DOMAIN object \ {"formatFunc", "mapType"} |->
     IF key = "tables" THEN DropUndefined(object[key]) ELSE object[key]]

RECURSIVE uniqueFrom(_, _, _)
uniqueFrom(array, i, acc) ==
  IF i > Len(array) THEN acc
  ELSE uniqueFrom(array, i + 1,
         IF \E j \in 1..Len(acc) : acc[j] = array[i]
         THEN acc ELSE Append(acc, array[i]))

(* unique that keeps every element.                                        *)
uniqueKeepsAll(array) == array

unique(array) == uniqueFrom(array, 1, <<>>)

DefaultTypeMap ==
  [any |-> "any", bool |-> "boolean", bigserial |-> "number",
   bit |-> "string", bpchar |-> "string", bytea |-> "Buffer",
   cidr |-> "string", citext |-> "string", circle |-> "string",
   date |-> "string", decimal |-> "number", float2 |-> "number",
   float4 |-> "number", float8 |-> "number", int2 |-> "number",
   int4 |-> "number", int8 |-> "number", inet |-> "string",
   interval |-> "string", json |-> "any", jsonb |-> "any",
   line |-> "string", lseg |-> "string", macaddr |-> "string",
   macaddr8 |-> "string", money |-> "string", null |-> "null",
   numeric |-> "number", oid |-> "number", path |-> "string",
   point |-> "string", polygon |-> "string", serial |-> "number",
   serial2 |-> "number", serial4 |-> "number", serial8 |-> "number",
   smallserial |-> "number", text |-> "string", time |-> "string",
   timestamp |-> "string", timestamptz |-> "string", timetz |-> "string",
   tsquery |-> "string", tsvector |-> "string", unknown |-> "unknown",
   uuid |-> "string", varbit |-> "string", varchar |-> "string",
   xml |-> "string"]

(* The type tags of the model; strings cannot be taken apart, so a         *)
(* trailing "[]" is recognised by building it over these tags.             *)
TypeTags == DOMAIN DefaultTypeMap \cup {"mood", "shade", "record", "geometry"}

ElementTags == TypeTags \cup {ArrayOf(tag) : tag \in TypeTags}

isArray(typeName) == \E tag \in ElementTags : typeName = ArrayOf(tag)

getElementType(typeName) ==
  IF isArray(typeName)
  THEN CHOOSE tag \in ElementTags : typeName = ArrayOf(tag)
  ELSE typeName

isBit(typeName) == typeName \in {"bit", "varbit"}

isJson(typeName) == typeName \in {"json", "jsonb"}

isNumber(typeName) ==
  typeName \in {"bigserial", "decimal", "float2", "float4", "float8", "int2",
                "int4", "int8", "serial", "serial2", "serial4", "serial8",
                "smallserial"}

isText(typeName) == typeName \in {"bpchar", "citext", "text", "varchar"}

isTime(typeName) == typeName \in {"time", "timetz"}

isTimestamp(typeName) == typeName \in {"timestamp", "timestamptz"}

RECURSIVE join(_, _)
join(strings, separator) ==
  IF Len(strings) = 0 THEN ""
  ELSE IF Len(strings) = 1 THEN strings[1]
  ELSE strings[1] \o separator \o join(Tail(strings), separator)

----------------------------------------------------------------------------
(* Expression analysis                                                     *)

RECURSIVE parseExpression(_, _)
RECURSIVE parseStmt(_, _)
RECURSIVE parseSelectStmt(_, _)
RECURSIVE parseFromItem(_, _, _, _)
RECURSIVE parseCoalesceArgs(_, _, _, _)
RECURSIVE parseTargets(_, _, _, _)
RECURSIVE parseFromItems(_, _, _, _)
RECURSIVE parseCtes(_, _, _)
RECURSIVE someArgNullable(_, _, _)

parseAll(expressions, ctx) ==
  [i \in 1..Len(expressions) |-> parseExpression(expressions[i], ctx)]

parseAArrayExpr(aArrayExpr, ctx) ==
  IF Len(aArrayExpr.elements) = 0 THEN Throw(TypeError)
  ELSE Bind(parseExpression(aArrayExpr.elements[1], ctx), LAMBDA element :
       IF IsErr(element) THEN element
       ELSE [nullable |-> FALSE, type |-> ArrayOf(element.type)])

parseAConst(aConst) ==
  LET val == aConst.val IN
  CASE val.kind = "Integer" ->
         [constantValue |-> ToString(val.ival), nullable |-> FALSE,
          type |-> "int4"]
    [] val.kind = "Float" ->
         [constantValue |-> val.str, nullable |-> FALSE, type |-> "float4"]
    [] val.kind = "Null" -> [nullable |-> TRUE, type |-> "null"]
    [] val.kind = "String" ->
         [constantValue |-> "\"" \o val.str \o "\"",
          nullable |-> FALSE, type |-> "text"]
    [] OTHER -> Throw("Parsing constant value is not currently supported.")

(* The operators of AEXPR_OP by the case of the switch that handles them.  *)
Comparisons ==
  {"<", "<=", ">", ">=", "<>", "!=", "=", "@>", "<@", "?", "?|", "?&", "@?",
   "@@", "&&", "&<", "&>", "-|-", "~*", "!~", "!~*"}

LeftTyped == {"&", "|", "#", "->", "#>", "#-"}

TextTyped == {"->>", "#>>"}

RightTyped == {"%", "^", "|/", "||/", "@"}

(* The operators whose case reads lexpr only behind `lexpr ?`.             *)
Prefixable == {"+", "-", "~"} \cup RightTyped

PlusType(lexpr, rexpr) ==
  IF IsUndefined(lexpr) THEN rexpr.type
  ELSE IF lexpr.type = "date"
  THEN IF isNumber(rexpr.type) THEN "date"
       ELSE IF isTime(rexpr.type) \/ rexpr.type = "interval" THEN "timestamp"
       ELSE rexpr.type
  ELSE IF rexpr.type = "date"
  THEN IF isNumber(lexpr.type) THEN "date"
       ELSE IF isTime(lexpr.type) \/ lexpr.type = "interval" THEN "timestamp"
       ELSE rexpr.type
  ELSE IF lexpr.type = "interval"
  THEN IF isTimestamp(rexpr.type) \/ isTime(rexpr.type) THEN rexpr.type
       ELSE rexpr.type
  ELSE IF rexpr.type = "interval"
  THEN IF isTimestamp(lexpr.type) \/ isTime(lexpr.type) THEN lexpr.type
       ELSE rexpr.type
  ELSE rexpr.type

MinusType(lexpr, rexpr) ==
  IF IsUndefined(lexpr) THEN rexpr.type
  ELSE IF isJson(lexpr.type) THEN lexpr.type
  ELSE IF lexpr.type = "date" /\ rexpr.type = "date" THEN "int4"
  ELSE IF lexpr.type = "date" /\ isNumber(rexpr.type) THEN "date"
  ELSE IF lexpr.type = "date" /\ rexpr.type = "interval" THEN "timestamp"
  ELSE IF isTime(lexpr.type) /\ isTime(rexpr.type) THEN "interval"
  ELSE IF isTime(lexpr.type) /\ rexpr.type = "interval" THEN lexpr.type
  ELSE IF isTimestamp(lexpr.type) /\ rexpr.type = "interval" THEN lexpr.type
  ELSE IF isTimestamp(lexpr.type) /\ isTimestamp(rexpr.type) THEN "interval"
  ELSE rexpr.type

(* parseOperator with the default of parseFuncCall for an unknown name.    *)
parseOperatorAny(name, lexpr, rexpr) ==
  LET known == {"+", "-", "*", "/", ">>", "<<", "~", "||"} \cup Comparisons
                 \cup LeftTyped \cup TextTyped \cup RightTyped
      nullable == (IF IsUndefined(lexpr) THEN FALSE ELSE lexpr.nullable)
                    \/ rexpr.nullable
  IN
  IF name \notin known
  THEN [nullable |-> TRUE, type |-> "any"]
  ELSE IF IsUndefined(rexpr) THEN Throw(TypeError)
  ELSE IF IsUndefined(lexpr) /\ name \notin Prefixable THEN Throw(TypeError)
  ELSE
  CASE name = "+" -> [nullable |-> nullable, type |-> PlusType(lexpr, rexpr)]
    [] name = "-" -> [nullable |-> nullable, type |-> MinusType(lexpr, rexpr)]
    [] name = "*" ->
         [nullable |-> nullable,
          type |-> IF lexpr.type = "interval" /\ isNumber(rexpr.type)
                   THEN "interval"
                   ELSE IF rexpr.type = "interval" /\ isNumber(lexpr.type)
                   THEN "interval" ELSE rexpr.type]
    [] name = "/" ->
         [nullable |-> nullable,
          type |-> IF lexpr.type = "interval" /\ isNumber(rexpr.type)
                   THEN "interval" ELSE rexpr.type]
    [] name \in {">>", "<<"} ->
         [nullable |-> nullable,
          type |-> IF isNumber(rexpr.type) THEN lexpr.type ELSE "bool"]
    [] name = "~" ->
         [nullable |-> nullable,
          type |-> IF isNumber(rexpr.type) \/ isBit(rexpr.type)
                   THEN rexpr.type ELSE "bool"]
    [] name = "||" ->
         [type |-> IF isArray(lexpr.type) THEN lexpr.type
                   ELSE IF isArray(rexpr.type) THEN rexpr.type
                   ELSE IF isText(lexpr.type) THEN lexpr.type
                   ELSE rexpr.type,
          nullable |-> nullable]
    [] name \in Comparisons -> [nullable |-> nullable, type |-> "bool"]
    [] name \in LeftTyped -> [nullable |-> nullable, type |-> lexpr.type]
    [] name \in TextTyped -> [nullable |-> nullable, type |-> "text"]
    [] name \in RightTyped -> [nullable |-> nullable, type |-> rexpr.type]

(* The switch on the operator name in the AEXPR_OP case, given the parsed  *)
(* operands; an operand the parse tree does not have is Undefined.         *)
parseOperator(name, lexpr, rexpr) ==
  LET known == {"+", "-", "*", "/", ">>", "<<", "~", "||"} \cup Comparisons
                 \cup LeftTyped \cup TextTyped \cup RightTyped
      nullable == (IF IsUndefined(lexpr) THEN FALSE ELSE lexpr.nullable)
                    \/ rexpr.nullable
  IN
  IF name \notin known
  THEN Throw("Parsing operator is not currently supported.")
  ELSE IF IsUndefined(rexpr) THEN Throw(TypeError)
  ELSE IF IsUndefined(lexpr) /\ name \notin Prefixable THEN Throw(TypeError)
  ELSE
  CASE name = "+" -> [nullable |-> nullable, type |-> PlusType(lexpr, rexpr)]
    [] name = "-" -> [nullable |-> nullable, type |-> MinusType(lexpr, rexpr)]
    [] name = "*" ->
         [nullable |-> nullable,
          type |-> IF lexpr.type = "interval" /\ isNumber(rexpr.type)
                   THEN "interval"
                   ELSE IF rexpr.type = "interval" /\ isNumber(lexpr.type)
                   THEN "interval" ELSE rexpr.type]
    [] name = "/" ->
         [nullable |-> nullable,
          type |-> IF lexpr.type = "interval" /\ isNumber(rexpr.type)
                   THEN "interval" ELSE rexpr.type]
    [] name \in {">>", "<<"} ->
         [nullable |-> nullable,
          type |-> IF isNumber(rexpr.type) THEN lexpr.type ELSE "bool"]
    [] name = "~" ->
         [nullable |-> nullable,
          type |-> IF isNumber(rexpr.type) \/ isBit(rexpr.type)
                   THEN rexpr.type ELSE "bool"]
    [] name = "||" ->
         [type |-> IF isArray(lexpr.type) THEN lexpr.type
                   ELSE IF isArray(rexpr.type) THEN rexpr.type
                   ELSE IF isText(lexpr.type) THEN lexpr.type
                   ELSE rexpr.type,
          nullable |-> nullable]
    [] name \in Comparisons -> [nullable |-> nullable, type |-> "bool"]
    [] name \in LeftTyped -> [nullable |-> nullable, type |-> lexpr.type]
    [] name \in TextTyped -> [nullable |-> nullable, type |-> "text"]
    [] name \in RightTyped -> [nullable |-> nullable, type |-> rexpr.type]

parseAExpr(expression, ctx) ==
  CASE expression.kind = "AEXPR_OP" ->
         Bind(IF "lexpr" \in DOMAIN expression
              THEN parseExpression(expression.lexpr, ctx) ELSE Undefined,
              LAMBDA lexpr :
         IF IsErr(lexpr) THEN lexpr
         ELSE Bind(IF "rexpr" \in DOMAIN expression
                   THEN parseExpression(expression.rexpr, ctx) ELSE Undefined,
                   LAMBDA rexpr :
              IF IsErr(rexpr) THEN rexpr
              ELSE parseOperator(expression.name[Len(expression.name)].str,
                                 lexpr, rexpr)))
    [] expression.kind \in
         {"AEXPR_OP_ANY", "AEXPR_OP_ALL", "AEXPR_IN", "AEXPR_LIKE",
          "AEXPR_ILIKE", "AEXPR_SIMILAR", "AEXPR_BETWEEN",
          "AEXPR_NOT_BETWEEN", "AEXPR_BETWEEN_SYM",
          "AEXPR_NOT_BETWEEN_SYM"} ->
         Bind(parseExpression(expression.lexpr, ctx), LAMBDA lexpr :
         IF IsErr(lexpr) THEN lexpr
         ELSE IF lexpr.nullable THEN [nullable |-> TRUE, type |-> "bool"]
         ELSE Bind(parseExpression(expression.rexpr, ctx), LAMBDA rexpr :
              IF IsErr(rexpr) THEN rexpr
              ELSE [nullable |-> rexpr.nullable, type |-> "bool"]))
    [] expression.kind \in {"AEXPR_DISTINCT", "AEXPR_NOT_DISTINCT"} ->
         [nullable |-> FALSE, type |-> "bool"]
    [] expression.kind = "AEXPR_NULLIF" ->
         Bind(parseExpression(expression.lexpr, ctx), LAMBDA lexpr :
         IF IsErr(lexpr) THEN lexpr ELSE [nullable |-> TRUE] @@ lexpr)
    [] OTHER -> Throw("Parsing expression is not currently supported.")

(* The slice case of parseAIndirection without the bounds.                 *)
SliceNullableOfArray(nullable, indices, ctx) == [value |-> nullable]

(* The slice case of parseAIndirection: the bounds are analysed only while *)
(* the disjunction is still false.                                         *)
SliceNullable(nullable, indices, ctx) ==
  IF nullable THEN [value |-> TRUE]
  ELSE Bind(IF "lidx" \in DOMAIN indices
            THEN parseExpression(indices.lidx, ctx)
            ELSE [nullable |-> FALSE],
            LAMBDA lidx :
       IF IsErr(lidx) THEN lidx
       ELSE IF lidx.nullable THEN [value |-> TRUE]
       ELSE Bind(IF "uidx" \in DOMAIN indices
                 THEN parseExpression(indices.uidx, ctx)
                 ELSE [nullable |-> FALSE],
                 LAMBDA uidx :
            IF IsErr(uidx) THEN uidx ELSE [value |-> uidx.nullable]))

parseAIndirection(aIndirection, ctx) ==
  Bind(parseExpression(aIndirection.arg, ctx), LAMBDA arg :
  IF IsErr(arg) THEN arg
  ELSE IF isArray(arg.type)
  THEN IF Len(aIndirection.indirection) > 1
       THEN Throw("Parsing subscript expressions for multidimensional arrays is not currently supported.")
       ELSE IF Len(aIndirection.indirection) = 0 THEN Throw(TypeError)
       ELSE IF "is_slice" \in DOMAIN aIndirection.indirection[1]
       THEN Bind(SliceNullable(arg.nullable, aIndirection.indirection[1], ctx),
                 LAMBDA nullable :
            IF IsErr(nullable) THEN nullable
            ELSE [nullable |-> nullable.value, type |-> arg.type])
       ELSE [nullable |-> TRUE, type |-> getElementType(arg.type)]
  ELSE IF isJson(arg.type) THEN [nullable |-> TRUE, type |-> "any"]
  ELSE Throw("Parsing subscript expressions with this type is not currently supported."))

parseBoolExpr(boolExpr, ctx) ==
  Bind(parseAll(boolExpr.args, ctx), LAMBDA expressions :
  IF FirstErr(expressions, 1) # 0 THEN expressions[FirstErr(expressions, 1)]
  ELSE [nullable |-> Some(expressions), type |-> "bool"])

(* parseCaseExpr that forgets the missing ELSE.                            *)
parseCaseExprNoElse(caseExpr, ctx) ==
  Bind([i \in 1..Len(caseExpr.args) |->
          parseExpression(caseExpr.args[i].result, ctx)],
       LAMBDA results :
  Bind(IF "defresult" \in DOMAIN caseExpr
       THEN Append(results, parseExpression(caseExpr.defresult, ctx))
       ELSE results,
       LAMBDA possibleResults :
  IF FirstErr(possibleResults, 1) # 0
  THEN possibleResults[FirstErr(possibleResults, 1)]
  ELSE [nullable |-> Some(possibleResults),
        type |-> results[1].type,
        types |-> possibleResults]))

(* parseCaseExpr taking the type of the last possible result.              *)
parseCaseExprLast(caseExpr, ctx) ==
  Bind([i \in 1..Len(caseExpr.args) |->
          parseExpression(caseExpr.args[i].result, ctx)],
       LAMBDA results :
  Bind(IF "defresult" \in DOMAIN caseExpr
       THEN Append(results, parseExpression(caseExpr.defresult, ctx))
       ELSE results,
       LAMBDA possibleResults :
  IF FirstErr(possibleResults, 1) # 0
  THEN possibleResults[FirstErr(possibleResults, 1)]
  ELSE [nullable |-> "defresult" \notin DOMAIN caseExpr
                       \/ Some(possibleResults),
        type |-> possibleResults[Len(possibleResults)].type,
        types |-> possibleResults]))

parseCaseExpr(caseExpr, ctx) ==
  Bind([i \in 1..Len(caseExpr.args) |->
          parseExpression(caseExpr.args[i].result, ctx)],
       LAMBDA results :
  Bind(IF "defresult" \in DOMAIN caseExpr
       THEN Append(results, parseExpression(caseExpr.defresult, ctx))
       ELSE results,
       LAMBDA possibleResults :
  IF FirstErr(possibleResults, 1) # 0
  THEN possibleResults[FirstErr(possibleResults, 1)]
  ELSE [nullable |-> "defresult" \notin DOMAIN caseExpr
                       \/ Some(possibleResults),
        type |-> results[1].type,
        types |-> possibleResults]))

(* The loop of parseCoalesceExpr without its break.                        *)
RECURSIVE parseCoalesceArgsAll(_, _, _, _)
parseCoalesceArgsAll(args, i, types, ctx) ==
  IF i > Len(args) THEN [value |-> types]
  ELSE Bind(parseExpression(args[i], ctx), LAMBDA expression :
       IF IsErr(expression) THEN expression
       ELSE parseCoalesceArgsAll(args, i + 1, Append(types, expression), ctx))

(* The loop of parseCoalesceExpr: the arguments after the first            *)
(* non-nullable one are not analysed at all.                               *)
parseCoalesceArgs(args, i, types, ctx) ==
  IF i > Len(args) THEN [value |-> types]
  ELSE Bind(parseExpression(args[i], ctx), LAMBDA expression :
       IF IsErr(expression) THEN expression
       ELSE IF ~expression.nullable
            THEN [value |-> Append(types, expression)]
            ELSE parseCoalesceArgs(args, i + 1, Append(types, expression),
                                   ctx))

parseCoalesceExpr(coalesceExpr, ctx) ==
  Bind(parseCoalesceArgs(coalesceExpr.args, 1, <<>>, ctx), LAMBDA r :
  IF IsErr(r) THEN r
  ELSE [nullable |-> Every(r.value),
        type |-> r.value[1].type,
        types |-> r.value])

(* FirstWithColumn taking the last table that has the column.              *)
LastWithColumn(tables, columnName) ==
  LET hits == {i \in 1..Len(tables) : Has(tables[i].v.columns, columnName)}
  IN IF hits = {} THEN 0 ELSE CHOOSE i \in hits : \A j \in hits : i >= j

FirstWithColumn(tables, columnName) ==
  LET hits == {i \in 1..Len(tables) : Has(tables[i].v.columns, columnName)}
  IN IF hits = {} THEN 0 ELSE CHOOSE i \in hits : \A j \in hits : i <= j

parseColumnRef(columnRef, ctx) ==
  LET fields == columnRef.fields
      tables == ctx.tables
      notFound == Throw("Unable to find column.")
      named(column) == [name |-> fields[Len(fields)].str] @@ column
  IN
  IF Len(fields) > 2
  THEN Throw("Parsing fully qualified column names is not currently supported.")
  ELSE IF Len(fields) = 2
  THEN IF fields[2].kind = "A_Star"
       THEN [name |-> "",
             nullable |-> IF Has(tables, fields[1].str)
                             /\ ~IsUndefined(Get(tables, fields[1].str))
                          THEN Get(tables, fields[1].str).nullable
                          ELSE TRUE,
             type |-> "any"]
       ELSE IF ~Has(tables, fields[1].str)
                 \/ IsUndefined(Get(tables, fields[1].str))
            THEN notFound
            ELSE LET columns == Get(tables, fields[1].str).columns IN
                 IF Has(columns, fields[2].str)
                 THEN named(Get(columns, fields[2].str))
                 ELSE notFound
  ELSE IF fields[1].kind = "A_Star"
       THEN [name |-> "", nullable |-> FALSE, type |-> "any"]
       ELSE IF \E i \in 1..Len(tables) : IsUndefined(tables[i].v)
                  /\ \A j \in 1..(i - 1) :
                       \/ IsUndefined(tables[j].v)
                       \/ ~Has(tables[j].v.columns, fields[1].str)
            THEN Throw(TypeError)
            ELSE LET defined == DropUndefined(tables)
                     hit == FirstWithColumn(defined, fields[1].str)
                 IN IF hit = 0 THEN notFound
                    ELSE named(Get(defined[hit].v.columns, fields[1].str))

(* args.some((arg) => parseExpression(arg, context).nullable): the         *)
(* arguments after the first nullable one are not analysed.                *)
someArgNullable(args, i, ctx) ==
  IF i > Len(args) THEN [value |-> FALSE]
  ELSE Bind(parseExpression(args[i], ctx), LAMBDA arg :
       IF IsErr(arg) THEN arg
       ELSE IF arg.nullable THEN [value |-> TRUE]
       ELSE someArgNullable(args, i + 1, ctx))

(* parseExpression(args[i], context)                                       *)
parseArg(args, i, ctx) ==
  IF i > Len(args) THEN Throw(TypeError) ELSE parseExpression(args[i], ctx)

(* The functions whose result has the type of the first argument and is    *)
(* nullable when some argument is.                                         *)
FirstArgTyped ==
  {"abs", "acos", "acosd", "acosh", "asin", "asind", "asinh", "atan", "atan2",
   "atan2d", "atand", "atanh", "bit_and", "bit_or", "bit_xor", "btrim",
   "cbrt", "ceil", "ceiling", "convert", "cos", "cosd", "cosh", "cot", "cotd",
   "degrees", "div", "exp", "factorial", "floor", "format", "gcd", "initcap",
   "lcm", "left", "ln", "log", "log10", "lower", "lpad", "ltrim", "max",
   "md5", "min", "mod", "normalize", "overlay", "power", "quote_ident",
   "radians", "regexp_replace", "repeat", "replace", "reverse", "right",
   "round", "rpad", "rtrim", "set_bit", "set_byte", "sha224", "sha256",
   "sha384", "sha512", "sign", "sin", "sind", "sinh", "split_part", "sqrt",
   "string_agg", "substr", "substring", "sum", "tan", "tand", "tanh",
   "to_ascii", "translate", "trim", "trim_scale", "trunc", "unistr", "upper"}

(* The functions of a fixed result type: nullable when some argument is    *)
(* ("some"), when the first argument is ("first"), always or never.        *)
Family(names, type, nullable) ==
  [names |-> names, type |-> type, nullable |-> nullable]

FixedTyped ==
  << Family({"bool_and", "bool_or", "every", "isfinite", "starts_with"},
            "bool", "some"),
     Family({"convert_to", "decode"}, "bytea", "some"),
     Family({"make_date", "to_date"}, "date", "some"),
     Family({"date_part"}, "float8", "some"),
     Family({"cume_dist", "percent_rank", "pi", "random"}, "float8", "never"),
     Family({"array_length", "array_lower", "array_ndims", "array_upper",
             "ascii", "bit_length", "cardinality", "char_length",
             "character_length", "chr", "get_bit", "get_byte", "length",
             "min_scale", "ntile", "octet_length", "position", "scale",
             "strpos", "width_bucket"}, "int4", "some"),
     Family({"array_position"}, "int4", "always"),
     Family({"num_nonnulls", "num_nulls"}, "int4", "never"),
     Family({"array_positions"}, "int4[]", "first"),
     Family({"bit_count"}, "int8", "some"),
     Family({"count", "currval", "dense_rank", "lastval", "nextval", "rank",
             "row_number", "setval"}, "int8", "never"),
     Family({"age", "justify_days", "justify_hours", "justify_interval",
             "make_interval"}, "interval", "some"),
     Family({"extract", "to_number"}, "numeric", "some"),
     Family({"array_dims", "array_to_string", "concat", "concat_ws",
             "convert_from", "encode", "quote_literal", "quote_nullable",
             "to_char", "to_hex"}, "text", "some"),
     Family({"timeofday"}, "text", "never"),
     Family({"parse_ident", "regexp_match", "regexp_split_to_array"},
            "text[]", "some"),
     Family({"string_to_array"}, "text[]", "first"),
     Family({"make_time"}, "time", "some"),
     Family({"date_bin", "make_timestamp"}, "timestamp", "some"),
     Family({"make_timestamptz", "to_timestamp"}, "timestamptz", "some"),
     Family({"clock_timestamp", "now", "statement_timestamp",
             "transaction_timestamp"}, "timestamptz", "never"),
     Family({"gen_random_uuid"}, "uuid", "never"),
     Family({"similar_to_escape"}, "text", "never") >>

(* { nullable: args.some(...), type: parseExpression(args[index]).type }   *)
SomeNullableTyped(args, index, ctx) ==
  Bind(someArgNullable(args, 1, ctx), LAMBDA nullable :
  IF IsErr(nullable) THEN nullable
  ELSE Bind(parseArg(args, index, ctx), LAMBDA typed :
       IF IsErr(typed) THEN typed
       ELSE [nullable |-> nullable.value, type |-> typed.type]))

(* { nullable: parseExpression(args[index]).nullable, type: ...type }      *)
ArgTyped(args, index, ctx) ==
  Bind(parseArg(args, index, ctx), LAMBDA arg :
  IF IsErr(arg) THEN arg
  ELSE [nullable |-> arg.nullable, type |-> arg.type])

avgType(type) ==
  IF type \in {"interval", "float8"} THEN type
  ELSE IF type = "float4" THEN "float8" ELSE "numeric"

parseFixedTyped(family, funcCall, ctx) ==
  CASE family.nullable = "never" ->
         [nullable |-> FALSE, type |-> family.type]
    [] family.nullable = "always" ->
         [nullable |-> TRUE, type |-> family.type]
    [] "args" \notin DOMAIN funcCall -> Throw(TypeError)
    [] family.nullable = "first" ->
         Bind(parseArg(funcCall.args, 1, ctx), LAMBDA arg :
         IF IsErr(arg) THEN arg
         ELSE [nullable |-> arg.nullable, type |-> family.type])
    [] family.nullable = "some" ->
         Bind(someArgNullable(funcCall.args, 1, ctx), LAMBDA nullable :
         IF IsErr(nullable) THEN nullable
         ELSE [nullable |-> nullable.value, type |-> family.type])

parseFuncCall(funcCall, ctx) ==
  LET functionName == funcCall.funcname[Len(funcCall.funcname)].str
      hasArgs == "args" \in DOMAIN funcCall
      families == {i \in 1..Len(FixedTyped) :
                     functionName \in FixedTyped[i].names}
  IN
  CASE functionName \in FirstArgTyped ->
         IF hasArgs THEN SomeNullableTyped(funcCall.args, 1, ctx)
         ELSE Throw(TypeError)
    [] functionName \in {"array_append", "array_cat", "array_remove",
                         "array_replace"} ->
         IF hasArgs THEN ArgTyped(funcCall.args, 1, ctx) ELSE Throw(TypeError)
    [] functionName = "date_trunc" ->
         IF hasArgs THEN SomeNullableTyped(funcCall.args, 2, ctx)
         ELSE Throw(TypeError)
    [] functionName = "array_prepend" ->
         IF hasArgs THEN ArgTyped(funcCall.args, 2, ctx) ELSE Throw(TypeError)
    [] functionName = "avg" ->
         IF ~hasArgs THEN Throw(TypeError)
         ELSE Bind(parseArg(funcCall.args, 1, ctx), LAMBDA arg :
              IF IsErr(arg) THEN arg
              ELSE [nullable |-> arg.nullable, type |-> avgType(arg.type)])
    [] functionName = "array_fill" ->
         IF ~hasArgs THEN Throw(TypeError)
         ELSE Bind(parseArg(funcCall.args, 1, ctx), LAMBDA arg :
              IF IsErr(arg) THEN arg
              ELSE [nullable |-> FALSE,
                    type |-> ArrayOf(getElementType(arg.type))])
    [] families # {} ->
         parseFixedTyped(FixedTyped[CHOOSE i \in families : TRUE],
                         funcCall, ctx)
    [] OTHER -> [nullable |-> TRUE, type |-> "any"]

parseList(list, ctx) ==
  Bind(parseAll(list.items, ctx), LAMBDA expressions :
  IF FirstErr(expressions, 1) # 0 THEN expressions[FirstErr(expressions, 1)]
  ELSE [nullable |-> Some(expressions),
        type |-> expressions[1].type,
        types |-> expressions])

parseMinMaxExpr(minMaxExpr, ctx) ==
  Bind(parseAll(minMaxExpr.args, ctx), LAMBDA types :
  IF FirstErr(types, 1) # 0 THEN types[FirstErr(types, 1)]
  ELSE [nullable |-> Every(types), type |-> types[1].type])

parseNullTest == [nullable |-> FALSE, type |-> "bool"]

parseBoolTest == [nullable |-> FALSE, type |-> "bool"]

parseParamRef == [nullable |-> TRUE, type |-> "any"]

(* parseSubLink whose scalar subquery keeps the nullability of the inner   *)
(* column.                                                                 *)
parseSubLinkAsColumn(subLink, ctx) ==
  CASE subLink.subLinkType \in {"ALL_SUBLINK", "ANY_SUBLINK"} ->
         [nullable |-> TRUE, type |-> "bool"]
    [] subLink.subLinkType = "ARRAY_SUBLINK" ->
         Bind(parseStmt(subLink.subselect, ctx), LAMBDA inner :
         IF IsErr(inner) THEN Throw(inner.error)
         ELSE IF Len(inner.value) = 0 THEN Throw(TypeError)
         ELSE [nullable |-> FALSE, type |-> ArrayOf(inner.value[1].type)])
    [] subLink.subLinkType \in {"EXISTS_SUBLINK", "ROWCOMPARE_SUBLINK"} ->
         [nullable |-> FALSE, type |-> "bool"]
    [] subLink.subLinkType = "EXPR_SUBLINK" ->
         Bind(parseStmt(subLink.subselect, ctx), LAMBDA inner :
         IF IsErr(inner) THEN Throw(inner.error)
         ELSE IF Len(inner.value) = 0 THEN [nullable |-> TRUE]
         ELSE inner.value[1])
    [] subLink.subLinkType = "MULTIEXPR_SUBLINK" ->
         [nullable |-> FALSE, type |-> "any"]
    [] OTHER -> Throw("Parsing sublink is not currently supported.")

parseSubLink(subLink, ctx) ==
  CASE subLink.subLinkType \in {"ALL_SUBLINK", "ANY_SUBLINK"} ->
         [nullable |-> TRUE, type |-> "bool"]
    [] subLink.subLinkType = "ARRAY_SUBLINK" ->
         Bind(parseStmt(subLink.subselect, ctx), LAMBDA inner :
         IF IsErr(inner) THEN Throw(inner.error)
         ELSE IF Len(inner.value) = 0 THEN Throw(TypeError)
         ELSE [nullable |-> FALSE, type |-> ArrayOf(inner.value[1].type)])
    [] subLink.subLinkType \in {"EXISTS_SUBLINK", "ROWCOMPARE_SUBLINK"} ->
         [nullable |-> FALSE, type |-> "bool"]
    [] subLink.subLinkType = "EXPR_SUBLINK" ->
         Bind(parseStmt(subLink.subselect, ctx), LAMBDA inner :
         IF IsErr(inner) THEN Throw(inner.error)
         ELSE IF Len(inner.value) = 0 THEN [nullable |-> TRUE]
         ELSE [nullable |-> TRUE] @@ inner.value[1])
    [] subLink.subLinkType = "MULTIEXPR_SUBLINK" ->
         [nullable |-> FALSE, type |-> "any"]
    [] OTHER -> Throw("Parsing sublink is not currently supported.")

(* parseTypeCast that drops the constant of its argument.                  *)
parseTypeCastWidening(typeCast, ctx) ==
  Bind(parseExpression(typeCast.arg, ctx), LAMBDA inner :
  LET names == typeCast.typeName.names
      type == IF Len(names) > 0 THEN names[Len(names)] ELSE ctx.fallbackType
  IN IF IsErr(inner) THEN inner
     ELSE IF typeCast.typeName.arrayBounds
     THEN [type |-> ArrayOf(type), nullable |-> inner.nullable]
     ELSE [nullable |-> inner.nullable, type |-> type])

parseTypeCast(typeCast, ctx) ==
  Bind(parseExpression(typeCast.arg, ctx), LAMBDA inner :
  LET names == typeCast.typeName.names
      type == IF Len(names) > 0 THEN names[Len(names)] ELSE ctx.fallbackType
      hasConstant == "constantValue" \in DOMAIN inner
  IN IF IsErr(inner) THEN inner
     ELSE IF hasConstant /\ inner.constantValue # ""
             /\ inner.constantValue \in {"\"t\"", "\"f\""} /\ type = "bool"
     THEN [constantValue |->
             IF inner.constantValue = "\"t\"" THEN "true" ELSE "false",
           type |-> "bool",
           nullable |-> inner.nullable]
     ELSE IF typeCast.typeName.arrayBounds
     THEN [type |-> ArrayOf(type), nullable |-> inner.nullable]
     ELSE IF hasConstant
     THEN [constantValue |-> inner.constantValue,
           nullable |-> inner.nullable, type |-> type]
     ELSE [nullable |-> inner.nullable, type |-> type])

parseExpression(expression, ctx) ==
  CASE expression.node = "A_ArrayExpr" -> parseAArrayExpr(expression, ctx)
    [] expression.node = "A_Const" -> parseAConst(expression)
    [] expression.node = "A_Expr" -> parseAExpr(expression, ctx)
    [] expression.node = "A_Indirection" -> parseAIndirection(expression, ctx)
    [] expression.node = "BoolExpr" -> parseBoolExpr(expression, ctx)
    [] expression.node = "BoolTest" -> parseBoolTest
    [] expression.node = "CaseExpr" -> parseCaseExpr(expression, ctx)
    [] expression.node = "CoalesceExpr" -> parseCoalesceExpr(expression, ctx)
    [] expression.node = "ColumnRef" -> parseColumnRef(expression, ctx)
    [] expression.node = "FuncCall" -> parseFuncCall(expression, ctx)
    [] expression.node = "List" -> parseList(expression, ctx)
    [] expression.node = "MinMaxExpr" -> parseMinMaxExpr(expression, ctx)
    [] expression.node = "NullTest" -> parseNullTest
    [] expression.node = "ParamRef" -> parseParamRef
    [] expression.node = "SubLink" -> parseSubLink(expression, ctx)
    [] expression.node = "TypeCast" -> parseTypeCast(expression, ctx)
    [] OTHER -> Throw("Parsing result target is not currently supported.")

----------------------------------------------------------------------------
(* Target list                                                             *)

RECURSIVE PutColumns(_, _, _)
PutColumns(acc, columns, i) ==
  IF i > Len(columns) THEN acc
  ELSE PutColumns(Put(acc, columns[i].k,
                      [name |-> columns[i].k] @@ columns[i].v),
                  columns, i + 1)

(* PutTables walking the scoped tables from the last to the first.         *)
RECURSIVE PutTablesReversed(_, _, _)
PutTablesReversed(acc, tables, i) ==
  IF i > Len(tables) THEN [value |-> acc]
  ELSE IF IsUndefined(tables[Len(tables) + 1 - i].v) THEN Throw(TypeError)
  ELSE PutTablesReversed(
         PutColumns(acc, tables[Len(tables) + 1 - i].v.columns, 1),
         tables, i + 1)

RECURSIVE PutTables(_, _, _)
PutTables(acc, tables, i) ==
  IF i > Len(tables) THEN [value |-> acc]
  ELSE IF IsUndefined(tables[i].v) THEN Throw(TypeError)
  ELSE PutTables(PutColumns(acc, tables[i].v.columns, 1), tables, i + 1)

(* The reduce of parseTargetList over a Map keyed by column name; acc is   *)
(* the Map, and the result is the sequence of its values.                  *)
parseTargets(targetList, i, acc, ctx) ==
  IF i > Len(targetList) THEN [value |-> Values(acc)]
  ELSE
  LET target == targetList[i]
      val == target.val
      tables == ctx.tables
      isStar == val.node = "ColumnRef" /\ val.fields[1].kind = "A_Star"
      isTableStar == val.node = "ColumnRef" /\ Len(val.fields) > 1
                       /\ val.fields[2].kind = "A_Star"
  IN
  IF isStar
  THEN Bind(PutTables(acc, tables, 1), LAMBDA expanded :
       IF IsErr(expanded) THEN expanded
       ELSE parseTargets(targetList, i + 1, expanded.value, ctx))
  ELSE IF isTableStar
  THEN LET tableName == val.fields[1].str IN
       IF ~Has(tables, tableName) \/ IsUndefined(Get(tables, tableName))
       THEN Throw("Unable to find table.")
       ELSE parseTargets(targetList, i + 1,
              PutColumns(acc, Get(tables, tableName).columns, 1), ctx)
  ELSE
  Bind(parseExpression(val, ctx), LAMBDA parsedExpression :
  LET alias == IF "name" \in DOMAIN target THEN target.name
               ELSE IF "name" \in DOMAIN parsedExpression
                    THEN parsedExpression.name ELSE ""
  IN IF IsErr(parsedExpression) THEN parsedExpression
     ELSE IF alias = "" THEN Throw("Alias not provided for result target.")
     ELSE parseTargets(targetList, i + 1,
            Put(acc, alias, [name |-> alias] @@ parsedExpression), ctx))

parseTargetList(targetList, ctx) == parseTargets(targetList, 1, <<>>, ctx)

----------------------------------------------------------------------------
(* FROM clause                                                             *)

(* The reduce that turns result targets into the columns of a synthetic    *)
(* table, renamed by the optional list of column aliases.                  *)
RECURSIVE ColumnsOf(_, _, _, _)
ColumnsOf(resultTargets, colnames, i, acc) ==
  IF i > Len(resultTargets) THEN acc
  ELSE LET resultTarget == resultTargets[i]
           columnName == IF i <= Len(colnames) THEN colnames[i]
                         ELSE resultTarget.name
       IN ColumnsOf(resultTargets, colnames, i + 1,
            Put(acc, columnName, [nullable |-> resultTarget.nullable,
                                  type |-> resultTarget.type]))

MarkNullable(parsedTables) ==
  [i \in 1..Len(parsedTables) |-> [parsedTables[i] EXCEPT !.nullable = TRUE]]

parseJoinExpr(joinExpr, parsedTables, ctx) ==
  Bind(parseFromItem(joinExpr.larg, parsedTables, ctx, FALSE), LAMBDA left :
  IF IsErr(left) THEN left
  ELSE parseFromItem(joinExpr.rarg,
         IF joinExpr.jointype \in {"JOIN_RIGHT", "JOIN_FULL"}
         THEN MarkNullable(left.value) ELSE left.value,
         ctx,
         joinExpr.jointype \in {"JOIN_LEFT", "JOIN_FULL"}))

(* parseRangeSubselect keeping every field of the result targets.          *)
parseRangeSubselectWhole(rangeSubselect, parsedTables, ctx, nullable) ==
  Bind(parseSelectStmt(rangeSubselect.subquery, ctx), LAMBDA inner :
  LET alias == rangeSubselect.alias
      colnames == IF "colnames" \in DOMAIN alias THEN alias.colnames ELSE <<>>
      columns == ColumnsOf(inner.value, colnames, 1, <<>>)
  IN IF IsErr(inner) THEN Throw(inner.error)
     ELSE [value |-> Append(parsedTables,
            [alias |-> alias.aliasname,
             columns |-> [i \in 1..Len(columns) |->
                            [columns[i] EXCEPT !.v = inner.value[i]]],
             nullable |-> nullable])])

parseRangeSubselect(rangeSubselect, parsedTables, ctx, nullable) ==
  Bind(parseSelectStmt(rangeSubselect.subquery, ctx), LAMBDA inner :
  LET alias == rangeSubselect.alias
      colnames == IF "colnames" \in DOMAIN alias THEN alias.colnames ELSE <<>>
  IN IF IsErr(inner) THEN Throw(inner.error)
     ELSE [value |-> Append(parsedTables,
            [alias |-> alias.aliasname,
             columns |-> ColumnsOf(inner.value, colnames, 1, <<>>),
             nullable |-> nullable])])

parseRangeVar(rangeVar, parsedTables, ctx, nullable) ==
  LET schema == IF "schemaname" \in DOMAIN rangeVar THEN rangeVar.schemaname
                ELSE ctx.defaultSchema
      found == Has(ctx.tablesBySchema, schema)
                 /\ Has(Get(ctx.tablesBySchema, schema), rangeVar.relname)
      name == IF "alias" \in DOMAIN rangeVar THEN rangeVar.alias.aliasname
              ELSE rangeVar.relname
  IN IF ~found THEN Throw("Unable to find table.")
     ELSE [value |-> Append(parsedTables,
            [alias |-> name,
             columns |-> Get(Get(ctx.tablesBySchema, schema),
                             rangeVar.relname).columns,
             nullable |-> nullable])]

parseFromItem(fromItem, parsedTables, ctx, nullable) ==
  CASE fromItem.node = "JoinExpr" -> parseJoinExpr(fromItem, parsedTables, ctx)
    [] fromItem.node = "RangeSubselect" ->
         parseRangeSubselect(fromItem, parsedTables, ctx, nullable)
    [] fromItem.node = "RangeVar" ->
         parseRangeVar(fromItem, parsedTables, ctx, nullable)
    [] OTHER -> Throw("Parsing from item is not currently supported.")

parseFromItems(fromItems, i, parsedTables, ctx) ==
  IF i > Len(fromItems) THEN [value |-> parsedTables]
  ELSE Bind(parseFromItem(fromItems[i], <<>>, ctx, FALSE), LAMBDA item :
       IF IsErr(item) THEN item
       ELSE parseFromItems(fromItems, i + 1, parsedTables \o item.value, ctx))

NullableColumns(columns) ==
  [i \in 1..Len(columns) |->
     [k |-> columns[i].k, v |-> [columns[i].v EXCEPT !.nullable = TRUE]]]

RECURSIVE ScopeTables(_, _, _)
ScopeTables(parsedTables, i, acc) ==
  IF i > Len(parsedTables) THEN acc
  ELSE LET parsedTable == parsedTables[i] IN
       ScopeTables(parsedTables, i + 1,
         Put(acc, parsedTable.alias,
             IF parsedTable.nullable
             THEN [columns |-> NullableColumns(parsedTable.columns),
                   nullable |-> parsedTable.nullable]
             ELSE parsedTable))

parseFromClause(fromItems, ctx) ==
  Bind(parseFromItems(fromItems, 1, <<>>, ctx), LAMBDA parsedTables :
  LET clonedContext == clone(ctx) IN
  IF IsErr(parsedTables) THEN parsedTables
  ELSE [clonedContext EXCEPT
          !.tables = ScopeTables(parsedTables.value, 1,
                                 clonedContext.tables)])

----------------------------------------------------------------------------
(* Statements.  A statement-level function returns, next to its value or   *)
(* its error, the state in which it leaves the context object that its     *)
(* caller passed in (field `context`).                                     *)

(* parseCommonTableExpr without the list of column names.                  *)
parseCommonTableExprUnnamed(cte, ctx) ==
  Bind(parseStmt(cte.ctequery, ctx), LAMBDA inner :
  LET after == inner.context
      tablesBySchema == after.tablesBySchema
  IN IF IsErr(inner) THEN inner
     ELSE IF ~Has(tablesBySchema, after.defaultSchema)
     THEN [error |-> TypeError, context |-> after]
     ELSE [after EXCEPT !.tablesBySchema =
             Put(tablesBySchema, after.defaultSchema,
                 Put(Get(tablesBySchema, after.defaultSchema), cte.ctename,
                     [columns |-> ColumnsOf(inner.value, <<>>, 1, <<>>),
                      nullable |-> FALSE]))])

parseCommonTableExpr(cte, ctx) ==
  Bind(parseStmt(cte.ctequery, ctx), LAMBDA inner :
  LET after == inner.context
      aliascolnames == IF "aliascolnames" \in DOMAIN cte
                       THEN cte.aliascolnames ELSE <<>>
      tablesBySchema == after.tablesBySchema
  IN IF IsErr(inner) THEN inner
     ELSE IF ~Has(tablesBySchema, after.defaultSchema)
     THEN [error |-> TypeError, context |-> after]
     ELSE [after EXCEPT !.tablesBySchema =
             Put(tablesBySchema, after.defaultSchema,
                 Put(Get(tablesBySchema, after.defaultSchema), cte.ctename,
                     [columns |-> ColumnsOf(inner.value, aliascolnames, 1, <<>>),
                      nullable |-> FALSE]))])

parseCtes(ctes, i, ctx) ==
  IF i > Len(ctes) THEN ctx
  ELSE Bind(parseCommonTableExpr(ctes[i], ctx), LAMBDA next :
       IF IsErr(next) THEN next ELSE parseCtes(ctes, i + 1, next))

(* parseWithClause without the clone: the CTEs are written into the        *)
(* caller's context object.                                                *)
parseWithClauseShared(withClause, ctx) ==
  Bind(parseCtes(withClause.ctes, 1, ctx), LAMBDA sharedContext :
  IF IsErr(sharedContext)
  THEN [error |-> sharedContext.error, context |-> sharedContext.context]
  ELSE [value |-> sharedContext, context |-> sharedContext])

parseWithClause(withClause, ctx) ==
  Bind(parseCtes(withClause.ctes, 1, clone(ctx)), LAMBDA clonedContext :
  IF IsErr(clonedContext)
  THEN [error |-> clonedContext.error, context |-> ctx]
  ELSE [value |-> clonedContext, context |-> ctx])

(* The body shared by parseDeleteStmt, parseInsertStmt and parseUpdateStmt *)
parseReturning(stmt, ctx) ==
  LET relation == stmt.relation
      clonedContext == clone(ctx)
      schema == IF "schemaname" \in DOMAIN relation THEN relation.schemaname
                ELSE ctx.defaultSchema
      tableName == IF "alias" \in DOMAIN relation
                   THEN relation.alias.aliasname ELSE relation.relname
      tables == Get(ctx.tablesBySchema, schema)
      table == IF Has(tables, relation.relname)
               THEN Get(tables, relation.relname) ELSE Undefined
      returningList == IF "returningList" \in DOMAIN stmt
                       THEN stmt.returningList ELSE <<>>
  IN IF ~Has(ctx.tablesBySchema, schema)
     THEN [error |-> TypeError, context |-> ctx]
     ELSE [context |-> ctx] @@
          parseTargetList(returningList,
            [clonedContext EXCEPT
               !.tables = Put(clonedContext.tables, tableName, table)])

parseDeleteStmt(stmt, ctx) == parseReturning(stmt, ctx)

parseInsertStmt(stmt, ctx) == parseReturning(stmt, ctx)

parseUpdateStmt(stmt, ctx) == parseReturning(stmt, ctx)

(* lists.map((list) => list[index]): a row shorter than the first has no  *)
(* value at the index.                                                     *)
ValuesTypes(lists, index) ==
  [r \in 1..Len(lists) |->
     IF index <= Len(lists[r]) THEN lists[r][index] ELSE Undefined]

(* Column `index` of a VALUES statement, nullable by the first row only.   *)
ValuesColumnFirstRow(lists, index) ==
  LET types == ValuesTypes(lists, index) IN
  [name |-> "column" \o ToString(index),
   nullable |-> types[1].nullable,
   type |-> types[1].type,
   types |-> types]

(* Column `index` of a VALUES statement: types.some reads the rows in      *)
(* order up to the first nullable value, and fails on a missing one.       *)
ValuesColumn(lists, index) ==
  LET types == ValuesTypes(lists, index)
      nullables == {r \in 1..Len(types) :
                      ~IsUndefined(types[r]) /\ types[r].nullable}
  IN IF \E r \in 1..Len(types) :
          IsUndefined(types[r]) /\ \A q \in 1..(r - 1) : q \notin nullables
     THEN Throw(TypeError)
     ELSE [name |-> "column" \o ToString(index),
           nullable |-> nullables # {},
           type |-> types[1].type,
           types |-> types]

(* SetColumn taking the nullability of the left operand only.              *)
SetColumnLeft(lResult, rResult) ==
  LET lSet == "set" \in DOMAIN lResult
      rSet == "set" \in DOMAIN rResult
      set == IF lSet /\ rSet THEN lResult.set \o rResult.set
             ELSE IF lSet THEN Append(lResult.set, rResult)
             ELSE IF rSet THEN <<lResult>> \o rResult.set
             ELSE <<lResult, rResult>>
  IN [name |-> lResult.name,
      nullable |-> lResult.nullable,
      type |-> lResult.type,
      set |-> set]

(* Column `index` of a set operation.                                      *)
SetColumn(lResult, rResult) ==
  LET lSet == "set" \in DOMAIN lResult
      rSet == "set" \in DOMAIN rResult
      set == IF lSet /\ rSet THEN lResult.set \o rResult.set
             ELSE IF lSet THEN Append(lResult.set, rResult)
             ELSE IF rSet THEN <<lResult>> \o rResult.set
             ELSE <<lResult, rResult>>
  IN [name |-> lResult.name,
      nullable |-> lResult.nullable \/ rResult.nullable,
      type |-> lResult.type,
      set |-> set]

parseSelectStmt(stmt, ctx) ==
  IF "valuesLists" \in DOMAIN stmt
  THEN Bind([r \in 1..Len(stmt.valuesLists) |->
               parseAll(stmt.valuesLists[r].items, ctx)],
            LAMBDA lists :
       LET bad == {r \in 1..Len(lists) : FirstErr(lists[r], 1) # 0}
           first == CHOOSE r \in bad : \A q \in bad : r <= q
       IN IF bad # {}
          THEN [error |-> lists[first][FirstErr(lists[first], 1)].error,
                context |-> ctx]
          ELSE Bind([index \in 1..Len(lists[1]) |->
                       ValuesColumn(lists, index)],
                    LAMBDA columns :
               IF FirstErr(columns, 1) # 0
               THEN [error |-> TypeError, context |-> ctx]
               ELSE [value |-> columns, context |-> ctx]))
  ELSE IF "larg" \in DOMAIN stmt
  THEN Bind(parseSelectStmt(stmt.larg, ctx), LAMBDA larg :
       IF IsErr(larg) THEN larg
       ELSE Bind(parseSelectStmt(stmt.rarg, larg.context), LAMBDA rarg :
            IF IsErr(rarg) THEN rarg
            ELSE IF Len(rarg.value) < Len(larg.value)
            THEN [error |-> TypeError, context |-> rarg.context]
            ELSE [value |-> [index \in 1..Len(larg.value) |->
                               SetColumn(larg.value[index],
                                         rarg.value[index])],
                  context |-> rarg.context]))
  ELSE Bind(IF "withClause" \in DOMAIN stmt
            THEN parseWithClause(stmt.withClause, ctx)
            ELSE [value |-> ctx, context |-> ctx],
            LAMBDA contextWithWith :
       IF IsErr(contextWithWith) THEN contextWithWith
       ELSE Bind(IF "fromClause" \in DOMAIN stmt
                 THEN parseFromClause(stmt.fromClause, contextWithWith.value)
                 ELSE contextWithWith.value,
                 LAMBDA contextWithFrom :
            IF IsErr(contextWithFrom)
            THEN [error |-> contextWithFrom.error,
                  context |-> contextWithWith.context]
            ELSE [context |-> contextWithWith.context] @@
                 parseTargetList(IF "targetList" \in DOMAIN stmt
                                 THEN stmt.targetList ELSE <<>>,
                                 contextWithFrom)))

parseStmt(stmt, ctx) ==
  CASE stmt.node = "DeleteStmt" -> parseDeleteStmt(stmt, ctx)
    [] stmt.node = "InsertStmt" -> parseInsertStmt(stmt, ctx)
    [] stmt.node = "SelectStmt" -> parseSelectStmt(stmt, ctx)
    [] stmt.node = "UpdateStmt" -> parseUpdateStmt(stmt, ctx)
    [] OTHER -> [error |-> "Parsing statement is not currently supported.",
                 context |-> ctx]

parseRawStmt(rawStmt, ctx) == parseStmt(rawStmt.stmt, ctx)

----------------------------------------------------------------------------
(* Type mapping and formatting                                             *)

(* mapType with the enums spread after the typeMap option.                 *)
mapTypeEnumsLast(m, pgType) ==
  LET table == m.enums @@ m.customTypeMap @@ DefaultTypeMap
      element == getElementType(pgType)
      tsType == IF element \in DOMAIN table /\ table[element] # ""
                THEN table[element] ELSE m.fallbackType
  IN IF isArray(pgType) THEN "Array<" \o tsType \o ">" ELSE tsType

(* The closure returned by getTypeMapper, applied to pgType; m holds the   *)
(* values the closure captures.                                            *)
mapType(m, pgType) ==
  LET table == m.customTypeMap @@ m.enums @@ DefaultTypeMap
      element == getElementType(pgType)
      tsType == IF element \in DOMAIN table /\ table[element] # ""
                THEN table[element] ELSE m.fallbackType
  IN IF isArray(pgType) THEN "Array<" \o tsType \o ">" ELSE tsType

(* The default formatFunc of createTypeGenerator.                          *)
formatFunc(name, tsType) == "\"" \o name \o "\": " \o tsType \o ","

(* formatExpression returns `text`; `name` and `members` are the parts it  *)
(* is assembled from.                                                      *)
formatExpression(expression, ctx) ==
  LET tsOf(e) == IF "constantValue" \in DOMAIN e THEN e.constantValue
                 ELSE mapType(ctx.mapType, e.type)
      tsTypes == IF "types" \in DOMAIN expression
                 THEN [i \in 1..Len(expression.types) |->
                         tsOf(expression.types[i])]
                 ELSE <<tsOf(expression)>>
      members == unique(IF expression.nullable
                        THEN Append(tsTypes, "null") ELSE tsTypes)
      name == IF "name" \in DOMAIN expression THEN expression.name ELSE ""
  IN IF "types" \in DOMAIN expression
        /\ \E i \in 1..Len(expression.types) :
             IsUndefined(expression.types[i])
     THEN Throw(TypeError)
     ELSE [text |-> formatFunc(name, join(members, " | ")),
           name |-> name,
           members |-> members]

ObjectSource(columns) ==
  join(<<"{">> \o [i \in 1..Len(columns) |-> columns[i].text] \o <<"}">>, " ")

(* format returns `source` as handed to the pretty-printer; `objects` is   *)
(* the structure of that string: one sequence of columns per object type.  *)
format(resultTargets, ctx) ==
  IF Len(resultTargets) = 0
  THEN [source |-> "{[K in any]: never}", objects |-> <<>>]
  ELSE IF ~{"formatFunc", "mapType"} \subseteq DOMAIN ctx
  THEN Throw(TypeError)
  ELSE IF \A i \in 1..Len(resultTargets) : "set" \in DOMAIN resultTargets[i]
  THEN IF \E i \in 1..Len(resultTargets) :
            Len(resultTargets[i].set) < Len(resultTargets[1].set)
       THEN Throw(TypeError)
       ELSE Bind([index \in 1..Len(resultTargets[1].set) |->
                    [i \in 1..Len(resultTargets) |->
                       formatExpression(resultTargets[i].set[index], ctx)]],
                 LAMBDA objects :
            IF \E index \in 1..Len(objects) : FirstErr(objects[index], 1) # 0
            THEN Throw(TypeError)
            ELSE [source |-> join([index \in 1..Len(objects) |->
                                     ObjectSource(objects[index])], " | "),
                  objects |-> objects])
  ELSE Bind([i \in 1..Len(resultTargets) |->
               formatExpression(resultTargets[i], ctx)],
            LAMBDA columns :
       IF FirstErr(columns, 1) # 0 THEN Throw(TypeError)
       ELSE [source |-> ObjectSource(columns), objects |-> <<columns>>])

(* parseRawStmts with the try/catch around each statement instead of the   *)
(* whole map: a failing statement ends the map and the results so far are  *)
(* returned.                                                               *)
RECURSIVE parseRawStmtsPartial(_, _, _, _, _)
parseRawStmtsPartial(rawStmts, i, results, targets, ctx) ==
  IF i > Len(rawStmts)
  THEN [result |-> [results |-> results], targets |-> targets,
        context |-> ctx]
  ELSE Bind(parseRawStmt(rawStmts[i], ctx), LAMBDA parsed :
       IF IsErr(parsed)
       THEN [result |-> [results |-> results], targets |-> targets,
             context |-> parsed.context]
       ELSE Bind(format(parsed.value, parsed.context), LAMBDA formatted :
            IF IsErr(formatted)
            THEN [result |-> [results |-> results],
                  targets |-> Append(targets, parsed.value),
                  context |-> parsed.context]
            ELSE parseRawStmtsPartial(rawStmts, i + 1,
                   Append(results, formatted),
                   Append(targets, parsed.value), parsed.context)))

(* The map over the raw statements in parseQuery, from statement i on;     *)
(* `targets` records the value of parseRawStmt for each statement.         *)
RECURSIVE parseRawStmts(_, _, _, _, _)
parseRawStmts(rawStmts, i, results, targets, ctx) ==
  IF i > Len(rawStmts)
  THEN [result |-> [results |-> results], targets |-> targets,
        context |-> ctx]
  ELSE Bind(parseRawStmt(rawStmts[i], ctx), LAMBDA parsed :
       IF IsErr(parsed)
       THEN [result |-> [error |-> parsed.error], targets |-> targets,
             context |-> parsed.context]
       ELSE Bind(format(parsed.value, parsed.context), LAMBDA formatted :
            IF IsErr(formatted)
            THEN [result |-> [error |-> formatted.error],
                  targets |-> Append(targets, parsed.value),
                  context |-> parsed.context]
            ELSE parseRawStmts(rawStmts, i + 1, Append(results, formatted),
                               Append(targets, parsed.value),
                               parsed.context)))

(* query.parsed is what pgsql-parser's parse(query) returns; a query that  *)
(* does not parse has no such field.                                       *)
parseQuery(query, ctx) ==
  IF "parsed" \notin DOMAIN query
  THEN [result |-> [error |-> "Parse"], targets |-> <<>>, context |-> ctx]
  ELSE parseRawStmts(query.parsed, 1, <<>>, <<>>, ctx)

----------------------------------------------------------------------------
(* Construction of a generator                                             *)

(* The options createTypeGenerator is called with (typeMap is a function   *)
(* from tags to TypeScript types, here the default: empty).                *)
Options ==
  [defaultSchema |-> "public",
   fallbackType |-> "string",
   typeMap |-> [tag \in {} |-> ""]]

(* The reduce of getTypeMapper over the rows of the enum query.            *)
EnumsOf(rows) ==
  [pgType \in {rows[i].pgType : i \in 1..Len(rows)} |->
     LET last == CHOOSE i \in 1..Len(rows) :
                   /\ rows[i].pgType = pgType
                   /\ \A j \in (i + 1)..Len(rows) : rows[j].pgType # pgType
     IN rows[last].tsType]

getTypeMapper(rows, customTypeMap, fallbackType) ==
  [enums |-> EnumsOf(rows),
   customTypeMap |-> customTypeMap,
   fallbackType |-> fallbackType]

(* The reduce of getTablesBySchema over the rows of the column query.      *)
RECURSIVE TablesOfRows(_, _, _)
TablesOfRows(rows, i, acc) ==
  IF i > Len(rows) THEN acc
  ELSE LET row == rows[i]
           acc1 == IF Has(acc, row.schema) THEN acc
                   ELSE Put(acc, row.schema, <<>>)
           tables == Get(acc1, row.schema)
           tables1 == IF Has(tables, row.table) THEN tables
                      ELSE Put(tables, row.table,
                               [columns |-> <<>>, nullable |-> FALSE])
           table == Get(tables1, row.table)
           table1 == [table EXCEPT !.columns =
                        Put(table.columns, row.column,
                            [nullable |-> row.nullable, type |-> row.type])]
       IN TablesOfRows(rows, i + 1,
            Put(acc1, row.schema, Put(tables1, row.table, table1)))

(* The loop of getTablesBySchema over the rows of the view query.          *)
RECURSIVE MaterializeViews(_, _, _, _)
MaterializeViews(views, i, tablesBySchema, ctx) ==
  IF i > Len(views) THEN [value |-> tablesBySchema]
  ELSE IF "parsed" \notin DOMAIN views[i].definition THEN Throw("Parse")
  ELSE IF Len(views[i].definition.parsed) = 0 THEN Throw(TypeError)
  ELSE
  LET view == views[i]
      withSchema == IF Has(tablesBySchema, view.schema) THEN tablesBySchema
                    ELSE Put(tablesBySchema, view.schema, <<>>)
  IN Bind(parseRawStmt(view.definition.parsed[1],
                       [ctx EXCEPT !.tablesBySchema = withSchema]),
          LAMBDA parsed :
     IF IsErr(parsed) THEN Throw(parsed.error)
     ELSE MaterializeViews(views, i + 1,
            Put(withSchema, view.schema,
                Put(Get(withSchema, view.schema), view.name,
                    [columns |-> ColumnsOf(parsed.value, <<>>, 1, <<>>),
                     nullable |-> FALSE])),
            ctx))

(* getTablesBySchema once the view query has returned.                     *)
getTablesBySchema(tablesBySchema, views, ctx) ==
  Bind(MaterializeViews(views, 1, tablesBySchema, ctx), LAMBDA done :
  IF IsErr(done) THEN done
  ELSE IF Has(done.value, ctx.defaultSchema) THEN done
  ELSE [value |-> Put(done.value, ctx.defaultSchema, <<>>)])

(* The context object of createTypeGenerator; formatFunc and mapType are   *)
(* its two function-valued keys.                                           *)
Context(opts, tablesBySchema, mapTypeClosure) ==
  [tables |-> <<>>,
   defaultSchema |-> opts.defaultSchema,
   fallbackType |-> opts.fallbackType,
   formatFunc |-> "formatFunc",
   mapType |-> mapTypeClosure,
   tablesBySchema |-> tablesBySchema]

NoMapper == getTypeMapper(<<>>, Options.typeMap, "")

NoContext == Context(Options, <<>>, NoMapper)

Idle == [idle |-> TRUE]

----------------------------------------------------------------------------
(* Parse trees                                                             *)

String(str) == [kind |-> "String", str |-> str]

A_Star == [kind |-> "A_Star", str |-> "*"]

IntConst(ival) ==
  [node |-> "A_Const", val |-> [kind |-> "Integer", ival |-> ival]]

FloatConst(str) ==
  [node |-> "A_Const", val |-> [kind |-> "Float", str |-> str]]

StrConst(str) ==
  [node |-> "A_Const", val |-> [kind |-> "String", str |-> str]]

NullConst == [node |-> "A_Const", val |-> [kind |-> "Null", str |-> ""]]

Cast(arg, name) ==
  [node |-> "TypeCast", arg |-> arg,
   typeName |-> [names |-> <<name>>, arrayBounds |-> FALSE]]

Col(column) == [node |-> "ColumnRef", fields |-> <<String(column)>>]

QCol(table, column) ==
  [node |-> "ColumnRef", fields |-> <<String(table), String(column)>>]

Star == [node |-> "ColumnRef", fields |-> <<A_Star>>]

TableStar(table) ==
  [node |-> "ColumnRef", fields |-> <<String(table), A_Star>>]

Coalesce(args) == [node |-> "CoalesceExpr", args |-> args]

CaseWhen(results) ==
  [node |-> "CaseExpr",
   args |-> [i \in 1..Len(results) |-> [result |-> results[i]]]]

CaseWhenElse(results, defresult) ==
  [defresult |-> defresult] @@ CaseWhen(results)

SubLink(subLinkType, subselect) ==
  [node |-> "SubLink", subLinkType |-> subLinkType, subselect |-> subselect]

AExpr(kind, name, lexpr, rexpr) ==
  [node |-> "A_Expr", kind |-> kind, name |-> <<String(name)>>,
   lexpr |-> lexpr, rexpr |-> rexpr]

PrefixExpr(name, rexpr) ==
  [node |-> "A_Expr", kind |-> "AEXPR_OP", name |-> <<String(name)>>,
   rexpr |-> rexpr]

NullIf(lexpr, rexpr) == AExpr("AEXPR_NULLIF", "=", lexpr, rexpr)

ListOf(items) == [node |-> "List", items |-> items]

BoolExpr(boolop, args) ==
  [node |-> "BoolExpr", boolop |-> boolop, args |-> args]

ArrayExpr(elements) == [node |-> "A_ArrayExpr", elements |-> elements]

FuncCall(funcname, args) ==
  [node |-> "FuncCall", funcname |-> <<String(funcname)>>, args |-> args]

(* A call with an OVER clause.                                             *)
FuncCallOver(funcname, args) ==
  [over |-> [node |-> "WindowDef"]] @@ FuncCall(funcname, args)

(* A call with a star for its arguments, as in count.                     *)
FuncCallStar(funcname) ==
  [node |-> "FuncCall", funcname |-> <<String(funcname)>>, agg_star |-> TRUE]

CastArray(arg, name) ==
  [node |-> "TypeCast", arg |-> arg,
   typeName |-> [names |-> <<name>>, arrayBounds |-> TRUE]]

Indirection(arg, indirection) ==
  [node |-> "A_Indirection", arg |-> arg, indirection |-> indirection]

(* The subscript [uidx].                                                   *)
Index(uidx) == [uidx |-> uidx]

(* The subscripts [lidx:uidx], [lidx:], [:uidx] and [:].                   *)
Slice(lidx, uidx) == [is_slice |-> TRUE, lidx |-> lidx, uidx |-> uidx]

SliceFrom(lidx) == [is_slice |-> TRUE, lidx |-> lidx]

SliceTo(uidx) == [is_slice |-> TRUE, uidx |-> uidx]

SliceAll == [is_slice |-> TRUE]

Target(val) == [val |-> val]

TargetAs(val, name) == [name |-> name, val |-> val]

RangeVar(relname) == [node |-> "RangeVar", relname |-> relname]

RangeVarAs(relname, aliasname) ==
  [node |-> "RangeVar", relname |-> relname,
   alias |-> [aliasname |-> aliasname]]

RangeSubselect(subquery, aliasname) ==
  [node |-> "RangeSubselect", subquery |-> subquery,
   alias |-> [aliasname |-> aliasname]]

Join(jointype, larg, rarg) ==
  [node |-> "JoinExpr", jointype |-> jointype, larg |-> larg, rarg |-> rarg]

Select(targetList) == [node |-> "SelectStmt", targetList |-> targetList]

SelectFrom(targetList, fromClause) ==
  [node |-> "SelectStmt", targetList |-> targetList,
   fromClause |-> fromClause]

WithSelect(ctes, targetList, fromClause) ==
  [withClause |-> [ctes |-> ctes]] @@ SelectFrom(targetList, fromClause)

Cte(ctename, ctequery) == [ctename |-> ctename, ctequery |-> ctequery]

CteAs(ctename, aliascolnames, ctequery) ==
  [aliascolnames |-> aliascolnames] @@ Cte(ctename, ctequery)

SetOp(larg, rarg) ==
  [node |-> "SelectStmt", op |-> "SETOP_UNION", larg |-> larg, rarg |-> rarg]

ValuesStmt(rows) ==
  [node |-> "SelectStmt",
   valuesLists |-> [r \in 1..Len(rows) |-> [items |-> rows[r]]]]

Returning(node, relation, returningList) ==
  [node |-> node, relation |-> relation, returningList |-> returningList]

NoReturning(node, relation) == [node |-> node, relation |-> relation]

Query(stmts) ==
  [parsed |-> [i \in 1..Len(stmts) |-> [stmt |-> stmts[i]]]]

Unparsable == [unparsable |-> TRUE]

----------------------------------------------------------------------------
(* The database, and the queries generate is called with                   *)

MaxArgs == 3        \* arguments of a COALESCE, WHEN arms of a CASE
MaxOperands == 3    \* operand queries of a set operation
MaxJoinDepth == 2   \* nesting depth of the joins of a FROM item
MaxStmts == 2       \* statements of one source string
MaxTargets == 3     \* items of a target list
MaxCasts == 2       \* casts wrapped around a literal
MaxRows == 2        \* rows of a VALUES statement
MaxValues == 2      \* values of a row of a VALUES statement
MaxSubscripts == 2  \* subscripts of a subscripted expression
MaxCtes == 2        \* common table expressions of a WITH clause
MaxViews == 2       \* views and materialized views of the database
MaxFromItems == 2   \* items of a FROM clause of a column resolution query

Row(schema, table, column, type, nullable) ==
  [schema |-> schema, table |-> table, column |-> column, type |-> type,
   nullable |-> nullable]

ColumnRows ==
  << Row("public", "a", "id", "int4", FALSE),
     Row("public", "a", "x", "text", TRUE),
     Row("public", "b", "id", "int4", FALSE),
     Row("public", "b", "y", "text", FALSE),
     Row("public", "c", "z", "float8", TRUE),
     Row("public", "c", "k", "mood", FALSE) >>

(* The enums of the database: mood, line (also the name of a built-in      *)
(* type) and shade, which has no labels.                                   *)
EnumRows ==
  << [pgType |-> "mood", tsType |-> "\"sad\" | \"ok\""],
     [pgType |-> "line", tsType |-> "\"thin\" | \"thick\""],
     [pgType |-> "shade", tsType |-> ""] >>

(* The options of a call of createTypeGenerator: the defaults, a typeMap   *)
(* over a built-in type, two enums and an unknown type, and a typeMap with *)
(* empty entries.                                                          *)
OptionSets ==
  { Options,
    [defaultSchema |-> "public",
     fallbackType |-> "unknown",
     typeMap |-> [tag \in {"int4", "mood", "line", "geometry"} |->
                    CASE tag = "int4" -> "bigint"
                      [] tag = "mood" -> "Mood"
                      [] tag = "line" -> "Line"
                      [] tag = "geometry" -> "Point"]],
    [defaultSchema |-> "public",
     fallbackType |-> "string",
     typeMap |-> [tag \in {"int4", "mood"} |-> ""]] }

View(name, stmt) ==
  [schema |-> "public", name |-> name, definition |-> Query(<<stmt>>)]

(* SELECT 42 n, COALESCE(x, 'abc') w FROM a                                *)
(* UNION SELECT NULL::int4 n, 'z' w                                        *)
ViewK ==
  [node |-> "SelectStmt", op |-> "SETOP_UNION",
   larg |-> [node |-> "SelectStmt",
             targetList |->
               <<TargetAs(IntConst(42), "n"),
                 TargetAs(Coalesce(<<Col("x"), StrConst("abc")>>), "w")>>,
             fromClause |-> <<RangeVar("a")>>],
   rarg |-> [node |-> "SelectStmt",
             targetList |-> <<TargetAs(Cast(NullConst, "int4"), "n"),
                              TargetAs(StrConst("z"), "w")>>]]

Databases ==
  { [columns |-> ColumnRows, enums |-> EnumRows, views |-> <<>>],
    [columns |-> ColumnRows, enums |-> EnumRows,
     views |-> << View("v", SelectFrom(<<Target(Col("id")), Target(Col("x"))>>,
                                        <<RangeVar("a")>>)) >>],
    [columns |-> ColumnRows, enums |-> EnumRows,
     views |-> << View("v2", SelectFrom(<<Target(Star)>>, <<RangeVar("v1")>>)),
                  View("v1", SelectFrom(<<Target(Star)>>, <<RangeVar("b")>>)) >>],
    [columns |-> ColumnRows, enums |-> EnumRows,
     views |-> << View("k", ViewK) >>] }

(* Databases with the views v1.. in every order the view query may return  *)
(* them: a view is over a base table, over another view, or reads another  *)
(* view in an EXISTS or a scalar subquery of its target list.              *)
ViewName(i) == "v" \o ToString(i)

ViewFrom(j) == SelectFrom(<<Target(Star)>>, <<RangeVar(ViewName(j))>>)

ViewExists(j) ==
  Select(<<TargetAs(SubLink("EXISTS_SUBLINK", ViewFrom(j)), "e")>>)

ViewScalar(j) ==
  Select(<<TargetAs(SubLink("EXPR_SUBLINK", ViewFrom(j)), "r")>>)

ViewDefinitions ==
  { SelectFrom(<<Target(Star)>>, <<RangeVar("b")>>),
    SelectFrom(<<Target(Col("x"))>>, <<RangeVar("a")>>) }
    \cup {ViewFrom(j) : j \in 1..MaxViews}
    \cup {ViewExists(j) : j \in 1..MaxViews}
    \cup {ViewScalar(j) : j \in 1..MaxViews}

ViewLists(n) ==
  {[i \in 1..n |-> View(ViewName(order[i]), stmts[i])] :
     order \in {f \in [1..n -> 1..MaxViews] :
                  \A i, k \in 1..n : f[i] = f[k] => i = k},
     stmts \in [1..n -> ViewDefinitions]}

RECURSIVE ViewListsUpTo(_)
ViewListsUpTo(n) ==
  IF n = 0 THEN {} ELSE ViewListsUpTo(n - 1) \cup ViewLists(n)

ViewDatabases ==
  {[columns |-> ColumnRows, enums |-> EnumRows, views |-> views] :
     views \in ViewListsUpTo(MaxViews)}

RECURSIVE SeqsUpTo(_, _)
SeqsUpTo(S, n) == IF n = 0 THEN {} ELSE SeqsUpTo(S, n - 1) \cup [1..n -> S]

JoinTypes == {"JOIN_INNER", "JOIN_LEFT", "JOIN_FULL", "JOIN_RIGHT"}

(* FROM items: the base tables, a subselect, and the joins over them in    *)
(* which no alias occurs twice.                                            *)
SubselectS ==
  RangeSubselect(SelectFrom(<<Target(Col("id")), Target(Col("y"))>>,
                            <<RangeVar("b")>>), "s")

Leaves == {RangeVar("a"), RangeVarAs("b", "t"), SubselectS}

RECURSIVE AliasesOf(_)
AliasesOf(fromItem) ==
  IF fromItem.node = "JoinExpr"
  THEN AliasesOf(fromItem.larg) \cup AliasesOf(fromItem.rarg)
  ELSE IF "alias" \in DOMAIN fromItem THEN {fromItem.alias.aliasname}
  ELSE {fromItem.relname}

RECURSIVE Joins(_)
Joins(depth) ==
  IF depth = 0 THEN Leaves
  ELSE LET sub == Joins(depth - 1) IN
       sub \cup {Join(jointype, larg, rarg) :
                   jointype \in JoinTypes,
                   <<larg, rarg>> \in {p \in sub \X sub :
                      AliasesOf(p[1]) \cap AliasesOf(p[2]) = {}}}

FromClauses ==
  {<<item>> : item \in Joins(MaxJoinDepth)}
    \cup {<<item, RangeVar("c")>> : item \in Joins(1)}
    \cup {<<RangeVar("c"), item>> : item \in Joins(1)}

JoinQueries == {Query(<<SelectFrom(<<Target(Star)>>, fromClause)>>) :
                  fromClause \in FromClauses}

(* Star expansion.                                                         *)
StarFroms ==
  {<<item>> : item \in Joins(1)}
    \cup {<<item, RangeVar("c")>> : item \in Joins(1)}

StarTargets ==
  { <<Target(TableStar("a"))>>, <<Target(TableStar("t"))>>,
    <<Target(TableStar("s"))>>, <<Target(TableStar("c"))>>,
    <<Target(TableStar("b"))>> }

StarQueries == {Query(<<SelectFrom(targetList, fromClause)>>) :
                  targetList \in StarTargets, fromClause \in StarFroms}

(* COALESCE and CASE over constants, columns of a, and an unknown column.  *)
Atoms ==
  { IntConst(42), StrConst("abc"), NullConst, Col("x"), Col("id"),
    Col("nope") }

ArgLists == SeqsUpTo(Atoms, MaxArgs)

BranchExprs ==
  {Coalesce(args) : args \in ArgLists}
    \cup {CaseWhen(results) : results \in ArgLists}
    \cup {CaseWhenElse(results, defresult) :
            results \in ArgLists, defresult \in Atoms}

BranchQueries ==
  {Query(<<SelectFrom(<<TargetAs(expression, "r")>>, <<RangeVar("a")>>)>>) :
     expression \in BranchExprs}

(* Set operations over simple operand queries.                             *)
Operands ==
  { Select(<<TargetAs(StrConst("a"), "kind"), TargetAs(IntConst(42), "n")>>),
    Select(<<TargetAs(StrConst("b"), "kind"),
             TargetAs(Cast(NullConst, "int4"), "n")>>),
    SelectFrom(<<Target(Col("y")), Target(Col("id"))>>, <<RangeVar("b")>>),
    SelectFrom(<<Target(Col("x")), Target(Col("id"))>>, <<RangeVar("a")>>),
    Select(<<TargetAs(IntConst(1), "one")>>),
    Select(<<TargetAs(SubLink("EXPR_SUBLINK",
                        SetOp(Select(<<TargetAs(IntConst(1), "i")>>),
                              Select(<<TargetAs(IntConst(2), "i")>>))),
                      "kind"),
             TargetAs(IntConst(7), "n")>>),
    SelectFrom(<<Target(Col("nope"))>>, <<RangeVar("a")>>) }

(* Set operations over n operands, in every bracketing: SetTrees(n);      *)
(* SetSplits(n, k) are those whose left side holds at most k of them.       *)
RECURSIVE SetTrees(_)
RECURSIVE SetSplits(_, _)
SetSplits(n, k) ==
  IF k = 0 THEN {}
  ELSE SetSplits(n, k - 1)
         \cup {SetOp(larg, rarg) :
                 larg \in SetTrees(k), rarg \in SetTrees(n - k)}

SetTrees(n) == IF n = 1 THEN Operands ELSE SetSplits(n, n - 1)

RECURSIVE SetTreesUpTo(_)
SetTreesUpTo(n) == IF n = 0 THEN {} ELSE SetTreesUpTo(n - 1) \cup SetTrees(n)

SetQueries == {Query(<<stmt>>) : stmt \in SetTreesUpTo(MaxOperands)}

(* Source strings of several statements, some of which fail.               *)
Statements ==
  { Select(<<TargetAs(IntConst(1), "one")>>),
    SelectFrom(<<Target(Star)>>, <<RangeVar("w")>>),
    WithSelect(<<Cte("w", SelectFrom(<<Target(Col("id"))>>,
                                     <<RangeVar("a")>>))>>,
               <<Target(TableStar("w"))>>, <<RangeVar("w")>>),
    SelectFrom(<<TargetAs(SubLink("EXPR_SUBLINK",
                   WithSelect(<<Cte("w", Select(<<TargetAs(IntConst(1),
                                                           "i")>>))>>,
                              <<Target(Col("i"))>>, <<RangeVar("w")>>)),
                 "sub")>>,
               <<RangeSubselect(SelectFrom(<<Target(Col("z"))>>,
                                           <<RangeVar("c")>>), "q")>>),
    Returning("UpdateStmt", RangeVarAs("b", "t"), <<Target(TableStar("t"))>>),
    [node |-> "CreateStmt"] }

StatementQueries ==
  {Query(stmts) : stmts \in SeqsUpTo(Statements, MaxStmts)} \cup {Unparsable}

(* Target lists whose items produce the same names.                        *)
NamedTargets ==
  { TargetAs(IntConst(1), "id"), TargetAs(StrConst("abc"), "x"),
    TargetAs(NullConst, "x"), Target(Col("id")), Target(Col("x")),
    Target(Star), Target(TableStar("t")) }

TargetFroms ==
  { <<RangeVar("a")>>,
    <<Join("JOIN_LEFT", RangeVar("a"), RangeVarAs("b", "t"))>> }

TargetQueries ==
  {Query(<<SelectFrom(targetList, fromClause)>>) :
     targetList \in SeqsUpTo(NamedTargets, MaxTargets),
     fromClause \in TargetFroms}

(* Result targets of every kind of expression, with and without an alias.  *)
ScalarSubquery == SubLink("EXPR_SUBLINK", Select(<<TargetAs(IntConst(1), "i")>>))

ItemExprs ==
  { Col("x"), QCol("a", "x"), Col("nope"), IntConst(42), NullConst,
    Cast(Col("x"), "text"), AExpr("AEXPR_OP", "=", Col("id"), IntConst(1)),
    PrefixExpr("-", Col("id")), NullIf(Col("x"), StrConst("abc")),
    NullIf(IntConst(1), IntConst(2)), CaseWhen(<<Col("x")>>),
    CaseWhenElse(<<Col("x")>>, Col("id")), Coalesce(<<Col("x")>>),
    BoolExpr("NOT_EXPR", <<Col("x")>>), ArrayExpr(<<Col("x")>>),
    ScalarSubquery,
    SubLink("EXISTS_SUBLINK", Select(<<TargetAs(IntConst(1), "i")>>)) }

AliasQueries ==
  {Query(<<SelectFrom(<<target>>, <<RangeVar("a")>>)>>) :
     target \in {Target(val) : val \in ItemExprs}
                  \cup {TargetAs(val, "r") : val \in ItemExprs}}

(* Unqualified column references over scopes of one to three tables.       *)
ColumnQueries ==
  {Query(<<SelectFrom(<<Target(Col(column))>>, fromClause)>>) :
     column \in {"id", "x", "y", "z", "nope"}, fromClause \in StarFroms}

(* Statements over relations the catalog has (a, b) and has not (nope).    *)
Relations ==
  { RangeVar("a"), RangeVarAs("b", "t"), RangeVar("nope"),
    RangeVarAs("nope", "n") }

ReturningLists ==
  { <<TargetAs(IntConst(1), "one")>>, <<Target(Star)>>, <<Target(Col("id"))>>,
    <<Target(TableStar("n"))>>, <<Target(TableStar("a"))>> }

RelationStmts ==
  {SelectFrom(<<TargetAs(IntConst(1), "one")>>, <<relation>>) :
     relation \in Relations}
    \cup {SelectFrom(<<Target(Star)>>,
                     <<Join("JOIN_LEFT", RangeVar("a"), relation)>>) :
            relation \in Relations \ {RangeVar("a")}}
    \cup {NoReturning(node, relation) :
            node \in {"InsertStmt", "UpdateStmt", "DeleteStmt"},
            relation \in Relations}
    \cup {Returning(node, relation, returningList) :
            node \in {"InsertStmt", "UpdateStmt", "DeleteStmt"},
            relation \in Relations, returningList \in ReturningLists}

RelationQueries == {Query(<<stmt>>) : stmt \in RelationStmts}

(* Aggregates over arguments of several types, nullable (from a.x) and not *)
(* (from a.id).                                                            *)
AggregateArgs ==
  {Col("id"), Col("x")}
    \cup {Cast(Col(column), type) :
            column \in {"id", "x"},
            type \in {"interval", "float8", "float4", "numeric", "int8"}}

Aggregates == {"sum", "min", "max", "avg", "count"}

AggregateQueries ==
  {Query(<<SelectFrom(<<TargetAs(call, "r")>>, <<RangeVar("a")>>)>>) :
     call \in {FuncCall(funcname, <<arg>>) :
                 funcname \in Aggregates, arg \in AggregateArgs}
               \cup {FuncCallStar("count")}}

(* Literals under up to MaxCasts casts.                                     *)
Literals ==
  { IntConst(42), IntConst(0), IntConst(-7), FloatConst("4.2"),
    StrConst("abc"), StrConst(""), StrConst("t"), StrConst("f"), NullConst }

CastTypes == {"int8", "text", "bool"}

RECURSIVE Casts(_)
Casts(depth) ==
  IF depth = 0 THEN Literals
  ELSE LET sub == Casts(depth - 1) IN
       sub \cup {Cast(arg, type) : arg \in sub, type \in CastTypes}

LiteralQueries ==
  {Query(<<Select(<<TargetAs(expression, "r")>>)>>) :
     expression \in Casts(MaxCasts)}

(* VALUES statements of up to MaxRows rows of up to MaxValues values each, *)
(* and some whose rows differ in length.                                   *)
RowValues == {IntConst(42), StrConst("abc"), NullConst}

RECURSIVE Rectangles(_, _)
Rectangles(r, k) ==
  IF r = 0 THEN {}
  ELSE IF k = 0 THEN Rectangles(r - 1, MaxValues)
  ELSE Rectangles(r, k - 1) \cup [1..r -> [1..k -> RowValues]]

ValuesRows ==
  Rectangles(MaxRows, MaxValues)
    \cup { << <<IntConst(42), NullConst>>, <<IntConst(42)>> >>,
           << <<IntConst(42), IntConst(42)>>, <<NullConst>> >>,
           << <<IntConst(42)>>, <<NullConst, StrConst("abc")>> >> }

ValuesQueries == {Query(<<ValuesStmt(rows)>>) : rows \in ValuesRows}

(* Subscripts on arrays, json values and scalars, over table a.            *)
Subjects ==
  { ArrayExpr(<<IntConst(1)>>), CastArray(Col("x"), "text"),
    CastArray(Col("id"), "mood"), Cast(Col("x"), "jsonb"),
    Cast(Col("id"), "json"), Col("id"), Col("x") }

Bounds == {IntConst(1), NullConst}

Subscripts ==
  {Index(uidx) : uidx \in Bounds}
    \cup {Slice(lidx, uidx) : lidx \in Bounds, uidx \in Bounds}
    \cup {SliceFrom(lidx) : lidx \in Bounds}
    \cup {SliceTo(uidx) : uidx \in Bounds}
    \cup {SliceAll}

SubscriptQueries ==
  {Query(<<SelectFrom(<<TargetAs(Indirection(arg, indirection), "r")>>,
                      <<RangeVar("a")>>)>>) :
     arg \in Subjects, indirection \in SeqsUpTo(Subscripts, MaxSubscripts)}

(* Subquery expressions of every kind over inner queries whose first      *)
(* column is or is not nullable, one of them correlated with the outer     *)
(* table a.                                                                *)
SubLinkTypes ==
  { "EXISTS_SUBLINK", "ROWCOMPARE_SUBLINK", "ANY_SUBLINK", "ALL_SUBLINK",
    "EXPR_SUBLINK", "ARRAY_SUBLINK", "MULTIEXPR_SUBLINK" }

Subselects ==
  { Select(<<TargetAs(IntConst(1), "i")>>),
    SelectFrom(<<Target(Col("y")), Target(Col("id"))>>, <<RangeVar("b")>>),
    SelectFrom(<<Target(Col("z"))>>, <<RangeVar("c")>>),
    SelectFrom(<<Target(QCol("a", "id"))>>, <<RangeVar("b")>>),
    SelectFrom(<<Target(Col("k")), Target(Col("z"))>>, <<RangeVar("c")>>),
    ValuesStmt(<< <<NullConst>>, <<IntConst(42)>> >>) }

SubLinkQueries ==
  {Query(<<SelectFrom(<<TargetAs(SubLink(subLinkType, subselect), "r")>>,
                      <<RangeVar("a")>>)>>) :
     subLinkType \in SubLinkTypes, subselect \in Subselects}

(* Casts of a.id to a type and to an array of it.                          *)
MappedTags == {"int4", "bool", "mood", "line", "shade", "geometry"}

MappingQueries ==
  {Query(<<SelectFrom(<<TargetAs(expression, "r")>>, <<RangeVar("a")>>)>>) :
     expression \in {Cast(Col("id"), tag) : tag \in MappedTags}
                      \cup {CastArray(Col("id"), tag) : tag \in MappedTags}}

(* WITH clauses of c1..cn: each body is a constant query, a query over     *)
(* table a, or a query over one of c1.., with or without a list of column  *)
(* names; the main query reads one of c1...                                *)
CteName(i) == "c" \o ToString(i)

FromCte(i) == SelectFrom(<<Target(Star)>>, <<RangeVar(CteName(i))>>)

CteBodies ==
  { Select(<<TargetAs(IntConst(1), "n")>>),
    SelectFrom(<<Target(Col("id")), Target(Col("x"))>>, <<RangeVar("a")>>) }
    \cup {FromCte(j) : j \in 1..MaxCtes}

CteLists(n) ==
  {[i \in 1..n |-> IF named[i]
                   THEN CteAs(CteName(i), <<"p">>, bodies[i])
                   ELSE Cte(CteName(i), bodies[i])] :
     bodies \in [1..n -> CteBodies], named \in [1..n -> BOOLEAN]}

RECURSIVE CteListsUpTo(_)
CteListsUpTo(n) ==
  IF n = 0 THEN {} ELSE CteListsUpTo(n - 1) \cup CteLists(n)

CteQueries ==
  {Query(<<WithSelect(ctes, <<Target(Star)>>, <<RangeVar(CteName(j))>>)>>) :
     ctes \in CteListsUpTo(MaxCtes), j \in 1..MaxCtes}

(* Subqueries and the scope around them.  Inner binds table b under the    *)
(* alias t and defines the CTE w; it stands as a scalar subquery, an array *)
(* subquery, a FROM subselect or a CTE body of an enclosing query, which   *)
(* then names t or w in a further target, in a sibling subquery or in a    *)
(* later FROM item.  A case is the query and the error expected of it, ""  *)
(* when none.                                                              *)
Inner ==
  WithSelect(<<Cte("w", Select(<<TargetAs(IntConst(1), "n")>>))>>,
             <<Target(QCol("t", "y"))>>,
             <<RangeVarAs("b", "t"), RangeVar("w")>>)

NoColumn == "Unable to find column."

NoTable == "Unable to find table."

Probe(targets, fromItems, ctes, error) ==
  [targets |-> targets, fromItems |-> fromItems, ctes |-> ctes,
   error |-> error]

TargetProbes ==
  { Probe(<<>>, <<>>, <<>>, ""),
    Probe(<<TargetAs(QCol("t", "y"), "p")>>, <<>>, <<>>, NoColumn),
    Probe(<<TargetAs(QCol("w", "n"), "p")>>, <<>>, <<>>, NoColumn),
    Probe(<<TargetAs(Col("n"), "p")>>, <<>>, <<>>, NoColumn),
    Probe(<<TargetAs(SubLink("EXPR_SUBLINK",
                             SelectFrom(<<Target(Star)>>, <<RangeVar("w")>>)),
                     "p")>>, <<>>, <<>>, NoTable),
    Probe(<<TargetAs(SubLink("EXPR_SUBLINK",
                             Select(<<Target(QCol("t", "y"))>>)),
                     "p")>>, <<>>, <<>>, NoColumn) }

FromProbes ==
  { Probe(<<>>, <<RangeVar("w")>>, <<>>, NoTable),
    Probe(<<>>, <<RangeSubselect(Select(<<Target(QCol("t", "y"))>>), "u")>>,
          <<>>, NoColumn) }

CteProbes ==
  { Probe(<<>>, <<>>,
          <<Cte("c2", SelectFrom(<<Target(Star)>>, <<RangeVar("w")>>))>>,
          NoTable),
    Probe(<<>>, <<>>, <<Cte("c2", Select(<<Target(QCol("t", "y"))>>))>>,
          NoColumn) }

ScopeCases ==
  {[query |-> Query(<<SelectFrom(
                <<TargetAs(SubLink(subLinkType, Inner), "s")>>
                  \o probe.targets,
                <<RangeVar("a")>>)>>),
    error |-> probe.error] :
     subLinkType \in {"EXPR_SUBLINK", "ARRAY_SUBLINK"},
     probe \in TargetProbes}
  \cup
  {[query |-> Query(<<SelectFrom(<<Target(Star)>> \o probe.targets,
                <<RangeSubselect(Inner, "s")>> \o probe.fromItems)>>),
    error |-> probe.error] :
     probe \in TargetProbes \cup FromProbes}
  \cup
  {[query |-> Query(<<WithSelect(<<Cte("c1", Inner)>> \o probe.ctes,
                <<Target(Star)>> \o probe.targets,
                <<RangeVar("c1")>> \o probe.fromItems)>>),
    error |-> probe.error] :
     probe \in TargetProbes \cup FromProbes \cup CteProbes}

ScopeQueries == {case.query : case \in ScopeCases}

(* Column resolution: a reference in a query over the items of Inner-      *)
(* Froms, alone or as a scalar subquery of a query over OuterFroms; the    *)
(* items are table a, table c and two subselects with columns of the same  *)
(* names as a's and other types, and the inner joins of two of them.       *)
ScopeLeaves ==
  { RangeVar("a"), RangeVar("c"),
    RangeSubselect(SelectFrom(<<TargetAs(Col("z"), "id"),
                                TargetAs(Col("k"), "x")>>,
                              <<RangeVar("c")>>), "s"),
    RangeSubselect(SelectFrom(<<TargetAs(Col("y"), "id")>>,
                              <<RangeVar("b")>>), "q") }

ScopeItems ==
  ScopeLeaves \cup {Join("JOIN_INNER", larg, rarg) :
                      larg \in ScopeLeaves, rarg \in ScopeLeaves}

RECURSIVE AliasSeq(_, _)
AliasSeq(fromItems, i) ==
  IF i > Len(fromItems) THEN <<>>
  ELSE LET fromItem == fromItems[i]
           here == IF fromItem.node = "JoinExpr"
                   THEN AliasSeq(<<fromItem.larg, fromItem.rarg>>, 1)
                   ELSE IF "alias" \in DOMAIN fromItem
                   THEN <<fromItem.alias.aliasname>>
                   ELSE <<fromItem.relname>>
       IN here \o AliasSeq(fromItems, i + 1)

Distinct(seq) == \A i, j \in 1..Len(seq) : seq[i] = seq[j] => i = j

OuterFroms == {<<>>} \cup SeqsUpTo(ScopeLeaves, MaxFromItems)

InnerFroms == SeqsUpTo(ScopeItems, MaxFromItems)

References ==
  {Col(column) : column \in {"id", "x", "z", "nope"}}
    \cup {QCol(table, column) : table \in {"a", "s", "b"},
                                column \in {"id", "x"}}
    \cup {[node |-> "ColumnRef",
           fields |-> <<String("public"), String("a"), String("id")>>]}

ResolutionQueries ==
  {Query(<<IF outer = <<>>
           THEN SelectFrom(<<TargetAs(reference, "r")>>, inner)
           ELSE SelectFrom(
                  <<TargetAs(SubLink("EXPR_SUBLINK",
                       SelectFrom(<<TargetAs(reference, "r")>>, inner)),
                     "r")>>,
                  outer)>>) :
     reference \in References,
     <<outer, inner>> \in {p \in OuterFroms \X InnerFroms :
                            Distinct(AliasSeq(p[1] \o p[2], 1))}}

(* Binary operators over operands of every tag of the numeric family and   *)
(* of the types the operator rules name: SELECT NULL::l <op> NULL::r.      *)
NumericFamily ==
  {"int2", "int4", "int8", "serial", "serial2", "serial4", "serial8",
   "smallserial", "bigserial", "float2", "float4", "float8", "numeric",
   "decimal", "oid"}

OperandTypes == NumericFamily \cup {"date", "interval", "text", "bit"}

NumberOperators == {"+", "-", "*", "/", "<<", ">>"}

OperatorQueries ==
  {Query(<<Select(<<TargetAs(AExpr("AEXPR_OP", name, Cast(NullConst, l),
                                   Cast(NullConst, r)), "r")>>)>>) :
     name \in NumberOperators, l \in OperandTypes, r \in OperandTypes}

(* Lists: SELECT id IN (items) r FROM a.                                   *)
ListQueries ==
  {Query(<<SelectFrom(<<TargetAs(AExpr("AEXPR_IN", "=", Col("id"),
                                       ListOf(items)), "r")>>,
                      <<RangeVar("a")>>)>>) :
     items \in ArgLists}

(* Columns read through a subselect of FROM, a CTE or the view k: the      *)
(* inner query yields a constant, branches or the variants of a set        *)
(* operation.                                                              *)
CarriedBodies ==
  { Select(<<TargetAs(IntConst(1), "x")>>),
    SelectFrom(<<TargetAs(Coalesce(<<Col("x"), StrConst("abc")>>), "x")>>,
               <<RangeVar("a")>>),
    SelectFrom(<<TargetAs(CaseWhen(<<IntConst(42)>>), "x"),
                 Target(Col("id"))>>, <<RangeVar("a")>>),
    SetOp(Select(<<TargetAs(IntConst(1), "x")>>),
          Select(<<TargetAs(Cast(NullConst, "int4"), "x")>>)),
    SetOp(Select(<<TargetAs(Cast(NullConst, "int4"), "x")>>),
          Select(<<TargetAs(IntConst(1), "x")>>)),
    SetOp(Select(<<TargetAs(IntConst(1), "x")>>),
          Select(<<TargetAs(StrConst("abc"), "x")>>)),
    ValuesStmt(<< <<IntConst(42), StrConst("abc")>>,
                  <<NullConst, StrConst("z")>> >>),
    ViewK }

CarriedTargets ==
  {<<Target(Star)>>}
    \cup {<<Target(Col(name))>> :
            name \in {"x", "id", "column1", "column2", "n", "w", "nope"}}

CarriedQueries ==
  {Query(<<SelectFrom(targets, <<RangeSubselect(body, "s")>>)>>) :
     targets \in CarriedTargets, body \in CarriedBodies}
    \cup {Query(<<WithSelect(<<Cte("s", body)>>, targets,
                             <<RangeVar("s")>>)>>) :
            targets \in CarriedTargets, body \in CarriedBodies}
    \cup {Query(<<SelectFrom(targets, <<RangeVar("k")>>)>>) :
            targets \in CarriedTargets}

(* Calls of functions and uses of operators that the analyser does not     *)
(* know, over arguments that are analysed, fail to be analysed or use an   *)
(* unknown operator themselves.                                            *)
UnknownFunctions == {"frobnicate", "my_rank"}

UnknownOperators == {"<->", "!", "##"}

UnknownArgs ==
  Atoms \cup {AExpr("AEXPR_OP", "<->", Col("id"), IntConst(42))}

UnknownCalls ==
  {FuncCall(name, args) :
     name \in UnknownFunctions, args \in SeqsUpTo(UnknownArgs, MaxArgs)}
    \cup {FuncCallOver(name, args) :
            name \in UnknownFunctions, args \in SeqsUpTo(UnknownArgs, MaxArgs)}
    \cup {[node |-> "FuncCall", funcname |-> <<String(name)>>] :
            name \in UnknownFunctions}

UnknownUses ==
  {AExpr("AEXPR_OP", name, lexpr, rexpr) :
     name \in UnknownOperators, lexpr \in UnknownArgs, rexpr \in UnknownArgs}
    \cup {PrefixExpr(name, rexpr) :
            name \in UnknownOperators, rexpr \in UnknownArgs}

UnknownQueries ==
  {Query(<<SelectFrom(<<TargetAs(expression, "r")>>, <<RangeVar("a")>>)>>) :
     expression \in UnknownCalls \cup UnknownUses}

AnalysisQuery(query) ==
  \/ query \in JoinQueries
  \/ query \in StarQueries
  \/ query \in BranchQueries
  \/ query \in SetQueries
  \/ query \in TargetQueries
  \/ query \in AliasQueries
  \/ query \in ColumnQueries
  \/ query \in RelationQueries
  \/ query \in AggregateQueries
  \/ query \in LiteralQueries
  \/ query \in ValuesQueries
  \/ query \in SubscriptQueries
  \/ query \in SubLinkQueries
  \/ query \in MappingQueries
  \/ query \in CteQueries
  \/ query \in ScopeQueries
  \/ query \in ResolutionQueries
  \/ query \in OperatorQueries
  \/ query \in ListQueries
  \/ query \in CarriedQueries
  \/ query \in UnknownQueries

----------------------------------------------------------------------------
(* The state machine: createTypeGenerator, then generate calls             *)

Init ==
  /\ pc = "start"
  /\ pool = "none"
  /\ poolLog = <<>>
  /\ db \in Databases
  /\ options \in OptionSets
  /\ mapper = NoMapper
  /\ catalog = <<>>
  /\ thrown = Idle
  /\ context = NoContext
  /\ built = NoContext
  /\ lastQuery = Idle
  /\ lastResult = Idle
  /\ lastTargets = <<>>

(* new Pool(...), then getTypeMapper up to its await of the enum query.    *)
NewPool ==
  /\ pc = "start"
  /\ pool' = "open"
  /\ poolLog' = <<"new", "query enums">>
  /\ pc' = "enumQuery"
  /\ UNCHANGED <<db, options, mapper, catalog, thrown, context, built, lastQuery,
                 lastResult, lastTargets>>

(* The enum query returns: mapType is built, and getTablesBySchema runs up *)
(* to its await of the column query.                                       *)
EnumQueryDone ==
  /\ pc = "enumQuery"
  /\ mapper' = getTypeMapper(db.enums, options.typeMap, options.fallbackType)
  /\ poolLog' = Append(poolLog, "query columns")
  /\ pc' = "columnQuery"
  /\ UNCHANGED <<pool, db, options, catalog, thrown, context, built, lastQuery,
                 lastResult, lastTargets>>

(* The column query returns: the base tables are reduced into the catalog, *)
(* and the view query is sent.                                             *)
ColumnQueryDone ==
  /\ pc = "columnQuery"
  /\ catalog' = TablesOfRows(db.columns, 1, <<>>)
  /\ poolLog' = Append(poolLog, "query views")
  /\ pc' = "viewQuery"
  /\ UNCHANGED <<pool, db, options, mapper, thrown, context, built, lastQuery,
                 lastResult, lastTargets>>

(* The view query returns: the views are materialized; whether or not that *)
(* throws, the finally block calls pool.end().                             *)
ViewQueryDone ==
  /\ pc = "viewQuery"
  /\ \E done \in {getTablesBySchema(catalog, db.views,
                                       Context(options, <<>>, mapper))} :
       IF IsErr(done)
       THEN thrown' = done /\ UNCHANGED catalog
       ELSE catalog' = done.value /\ UNCHANGED thrown
  /\ poolLog' = Append(poolLog, "end")
  /\ pc' = "ending"
  /\ UNCHANGED <<pool, db, options, mapper, context, built, lastQuery, lastResult,
                 lastTargets>>

(* A rejected query without the finally block: the exception leaves        *)
(* createTypeGenerator at once.                                            *)
QueryFailsWithoutEnd ==
  /\ pc \in {"enumQuery", "columnQuery", "viewQuery"}
  /\ thrown' = Throw("query failed")
  /\ pc' = "rejected"
  /\ UNCHANGED <<pool, poolLog, db, options, mapper, catalog, context, built,
                 lastQuery, lastResult, lastTargets>>

(* One of the three queries rejects; the finally block calls pool.end().   *)
QueryFails ==
  /\ pc \in {"enumQuery", "columnQuery", "viewQuery"}
  /\ thrown' = Throw("query failed")
  /\ poolLog' = Append(poolLog, "end")
  /\ pc' = "ending"
  /\ UNCHANGED <<pool, db, options, mapper, catalog, context, built, lastQuery,
                 lastResult, lastTargets>>

(* pool.end() resolves: the pending exception is rethrown, or the context  *)
(* is built and the generator returned.                                    *)
PoolEnded ==
  /\ pc = "ending"
  /\ pool' = "ended"
  /\ IF IsErr(thrown)
     THEN pc' = "rejected" /\ UNCHANGED <<context, built>>
     ELSE /\ pc' = "ready"
          /\ context' = Context(options, catalog, mapper)
          /\ built' = Context(options, catalog, mapper)
  /\ UNCHANGED <<poolLog, db, options, mapper, catalog, thrown, lastQuery, lastResult,
                 lastTargets>>

(* generator.generate(query)                                               *)
Call(query) ==
  \E returned \in {parseQuery(query, context)} :
    /\ lastQuery' = query
    /\ lastResult' = returned.result
    /\ lastTargets' = returned.targets
    /\ context' = returned.context
      /\ UNCHANGED <<pc, pool, poolLog, db, options, mapper, catalog, thrown, built>>

Generate ==
  /\ pc = "ready"
  /\ \E query \in StatementQueries : Call(query)

Next ==
  \/ NewPool
  \/ EnumQueryDone
  \/ ColumnQueryDone
  \/ ViewQueryDone
  \/ QueryFails
  \/ PoolEnded
  \/ Generate

Spec == Init /\ [][Next]_vars

(* The construction of a generator alone, over the databases with views.   *)
InitConstruction ==
  /\ pc = "start"
  /\ pool = "none"
  /\ poolLog = <<>>
  /\ db \in ViewDatabases
  /\ options = Options
  /\ mapper = NoMapper
  /\ catalog = <<>>
  /\ thrown = Idle
  /\ context = NoContext
  /\ built = NoContext
  /\ lastQuery = Idle
  /\ lastResult = Idle
  /\ lastTargets = <<>>

NextConstruction ==
  \/ NewPool
  \/ EnumQueryDone
  \/ ColumnQueryDone
  \/ ViewQueryDone
  \/ QueryFails
  \/ PoolEnded

SpecConstruction == InitConstruction /\ [][NextConstruction]_vars

(* The analysis of one query by a generator that construction returned:    *)
(* the query is drawn from the families above, and generate is applied to  *)
(* it.                                                                     *)
Loaded(database, opts) ==
  getTablesBySchema(TablesOfRows(database.columns, 1, <<>>), database.views,
    Context(opts, <<>>, getTypeMapper(database.enums, opts.typeMap,
                                      opts.fallbackType)))

ContextOf(database, opts) ==
  Context(opts, Loaded(database, opts).value,
          getTypeMapper(database.enums, opts.typeMap, opts.fallbackType))

InitAnalysis ==
  /\ pc = "ready"
  /\ pool = "ended"
  /\ poolLog = <<"new", "query enums", "query columns", "query views", "end">>
  /\ db \in {database \in Databases : ~IsErr(Loaded(database, Options))}
  /\ options \in OptionSets
  /\ built = ContextOf(db, options)
  /\ context = built
  /\ mapper = built.mapType
  /\ catalog = built.tablesBySchema
  /\ thrown = Idle
  /\ IF options = Options THEN AnalysisQuery(lastQuery)
                            ELSE lastQuery \in MappingQueries
  /\ lastResult = Idle
  /\ lastTargets = <<>>

Analyse ==
  /\ pc = "ready"
  /\ lastResult = Idle
  /\ Call(lastQuery)

NextAnalysis == Analyse

SpecAnalysis == InitAnalysis /\ [][NextAnalysis]_vars

----------------------------------------------------------------------------
(* Properties                                                              *)

Returned == lastResult # Idle

Ok == Returned /\ "results" \in DOMAIN lastResult

Failed == Returned /\ "error" \in DOMAIN lastResult

Parsed == "parsed" \in DOMAIN lastQuery

TheStmt == lastQuery.parsed[1].stmt

TheExpr == TheStmt.targetList[1].val

Min(S) == CHOOSE x \in S : \A y \in S : x <= y

Max(S) == CHOOSE x \in S : \A y \in S : x >= y

Succeeds(rawStmt) ==
  LET parsed == parseRawStmt(rawStmt, built) IN
  ~IsErr(parsed) /\ ~IsErr(format(parsed.value, built))

Rendered(rawStmt) == format(parseRawStmt(rawStmt, built).value, built)

(* C1: generate returns {results} with one rendered type per statement,    *)
(* in source order, when the source parses and every statement analyses    *)
(* and formats; otherwise it returns {error} and no results, also when     *)
(* earlier statements succeeded.                                           *)
C1_ResultsOrError ==
  Returned =>
    IF Parsed /\ \A i \in 1..Len(lastQuery.parsed) :
                   Succeeds(lastQuery.parsed[i])
    THEN /\ DOMAIN lastResult = {"results"}
         /\ lastResult.results =
              [i \in 1..Len(lastQuery.parsed) |-> Rendered(lastQuery.parsed[i])]
    ELSE DOMAIN lastResult = {"error"}

C1_Witness ==
  /\ Failed /\ Parsed
  /\ Len(lastQuery.parsed) = 2
  /\ Succeeds(lastQuery.parsed[1])
  /\ ~Succeeds(lastQuery.parsed[2])

SelectFromW == SelectFrom(<<Target(Star)>>, <<RangeVar("w")>>)

(* C2: once the generator is returned its context stays what construction  *)
(* built, so every generate call returns what the same call returns on a   *)
(* fresh generator, and a statement reading the CTE name w - defined only  *)
(* by WITH clauses of other statements and queries - fails.                *)
C2_ContextUnchanged ==
  pc = "ready" =>
    /\ context = built
    /\ built = ContextOf(db, options)
    /\ Returned => lastResult = parseQuery(lastQuery, built).result
    /\ (Returned /\ Parsed
          /\ \E i \in 1..Len(lastQuery.parsed) :
               lastQuery.parsed[i].stmt = SelectFromW)
         => Failed

C2_Witness ==
  /\ Failed /\ Parsed
  /\ Len(lastQuery.parsed) = 2
  /\ "withClause" \in DOMAIN lastQuery.parsed[1].stmt
  /\ lastQuery.parsed[2].stmt = SelectFromW

Ends == Cardinality({i \in DOMAIN poolLog : poolLog[i] = "end"})

(* C3: the pool is created, queried for enums, columns and views, and      *)
(* ended once before the generator is returned; no generate call runs      *)
(* while it is open; when a query or the view materialization fails the    *)
(* pool is ended all the same and no generator is returned.                *)
C3_PoolEndedOnce ==
  /\ Ends <= 1
  /\ pool = "ended" <=> pc \in {"ready", "rejected"}
  /\ pc = "ready" =>
       /\ poolLog = <<"new", "query enums", "query columns", "query views",
                      "end">>
       /\ ~IsErr(thrown)
  /\ Returned => pool = "ended" /\ pc = "ready"
  /\ pc = "rejected" =>
       /\ Ends = 1
       /\ poolLog[1] = "new"
       /\ IsErr(thrown)
       /\ context = NoContext

C3_Witness ==
  /\ pc = "rejected"
  /\ pool = "ended"
  /\ thrown = Throw("Unable to find table.")

RECURSIVE JoinNodes(_)
JoinNodes(fromItem) ==
  IF fromItem.node = "JoinExpr"
  THEN {fromItem} \cup JoinNodes(fromItem.larg) \cup JoinNodes(fromItem.rarg)
  ELSE {}

RECURSIVE LeafOf(_, _)
LeafOf(fromItem, alias) ==
  IF fromItem.node = "JoinExpr"
  THEN IF alias \in AliasesOf(fromItem.larg)
       THEN LeafOf(fromItem.larg, alias) ELSE LeafOf(fromItem.rarg, alias)
  ELSE fromItem

(* The scope the FROM clause of the analysed statement builds.             *)
Scope == parseFromClause(TheStmt.fromClause, built).tables

AllNullable(table) ==
  \A i \in 1..Len(table.columns) : table.columns[i].v.nullable

(* The columns of a FROM item that is not a join, as it declares them.     *)
DeclaredColumns(leaf) == parseFromItem(leaf, <<>>, built, FALSE).value[1].columns

OnNullableSide(fromItem, alias) ==
  \E joinExpr \in JoinNodes(fromItem) :
    \/ joinExpr.jointype \in {"JOIN_RIGHT", "JOIN_FULL"}
         /\ alias \in AliasesOf(joinExpr.larg)
    \/ joinExpr.jointype \in {"JOIN_LEFT", "JOIN_FULL"}
         /\ alias \in AliasesOf(joinExpr.rarg)

(* C4: every column of every table under the right argument of a LEFT or   *)
(* FULL join is nullable in the scope, whatever that argument is.        *)
C4_LeftJoinRightSideNullable ==
  (Returned /\ lastQuery \in JoinQueries) =>
    \A k \in 1..Len(TheStmt.fromClause) :
      \A joinExpr \in JoinNodes(TheStmt.fromClause[k]) :
        joinExpr.jointype \in {"JOIN_LEFT", "JOIN_FULL"} =>
          \A alias \in AliasesOf(joinExpr.rarg) : AllNullable(Get(Scope, alias))

(* C5: a RIGHT or FULL join makes the tables of its left argument          *)
(* nullable, and a table that is on the nullable side of no join of its    *)
(* FROM item keeps the nullability it declares.                            *)
C5_RightJoinLeftSideOnly ==
  (Returned /\ lastQuery \in JoinQueries) =>
    \A k \in 1..Len(TheStmt.fromClause) :
      LET fromItem == TheStmt.fromClause[k] IN
      /\ \A joinExpr \in JoinNodes(fromItem) :
           joinExpr.jointype \in {"JOIN_RIGHT", "JOIN_FULL"} =>
             \A alias \in AliasesOf(joinExpr.larg) : AllNullable(Get(Scope, alias))
      /\ \A alias \in AliasesOf(fromItem) :
           ~OnNullableSide(fromItem, alias) =>
             /\ ~Get(Scope, alias).nullable
             /\ Get(Scope, alias).columns =
                  DeclaredColumns(LeafOf(fromItem, alias))

(* What the atoms of the COALESCE and CASE queries are in the scope of     *)
(* table a: nullability, type tag, and the member they render as.          *)
AtomInfo(atom) ==
  CASE atom = IntConst(42) ->
         [nullable |-> FALSE, type |-> "int4", ts |-> "42"]
    [] atom = StrConst("abc") ->
         [nullable |-> FALSE, type |-> "text", ts |-> "\"abc\""]
    [] atom = NullConst -> [nullable |-> TRUE, type |-> "null", ts |-> "null"]
    [] atom = Col("x") -> [nullable |-> TRUE, type |-> "text", ts |-> "string"]
    [] atom = Col("id") ->
         [nullable |-> FALSE, type |-> "int4", ts |-> "number"]

TheColumn == lastTargets[1][1]

TheMembers == lastResult.results[1].objects[1][1].members

BranchesAre(branches, atoms) ==
  /\ Len(branches) = Len(atoms)
  /\ \A j \in 1..Len(atoms) :
       /\ branches[j].type = AtomInfo(atoms[j]).type
       /\ branches[j].nullable = AtomInfo(atoms[j]).nullable

(* C6: the branches of COALESCE(a1..an) are a1..ai up to the first         *)
(* non-nullable ai, the result is then non-nullable and the rendered union *)
(* lists a1..ai only; when every argument is nullable the branches are all *)
(* the arguments and the result is nullable; the type is that of a1.       *)
C6_CoalesceStopsAtNonNullable ==
  (Ok /\ lastQuery \in BranchQueries /\ TheExpr.node = "CoalesceExpr") =>
    LET args == TheExpr.args
        nonNull == {i \in 1..Len(args) :
                      args[i] # Col("nope") /\ ~AtomInfo(args[i]).nullable}
        cut == IF nonNull = {} THEN Len(args) ELSE Min(nonNull)
        kept == SubSeq(args, 1, cut)
        rendered == [j \in 1..cut |-> AtomInfo(args[j]).ts]
    IN /\ BranchesAre(TheColumn.types, kept)
       /\ TheColumn.nullable = (nonNull = {})
       /\ TheColumn.type = AtomInfo(args[1]).type
       /\ TheMembers = unique(IF nonNull = {}
                              THEN Append(rendered, "null") ELSE rendered)

C6_Witness ==
  /\ Ok
  /\ lastQuery \in BranchQueries
  /\ TheExpr = Coalesce(<<Col("x"), IntConst(42), StrConst("abc")>>)
  /\ TheMembers = <<"string", "42">>
  /\ ~TheColumn.nullable

(* C7: the branches of a CASE are its WHEN results in order, then its      *)
(* ELSE; it is nullable iff ELSE is missing or a branch is nullable;       *)
(* without ELSE it renders with null, with ELSE over non-nullable branches *)
(* it renders without.                                                     *)
C7_CaseNullableWithoutElse ==
  (Ok /\ lastQuery \in BranchQueries /\ TheExpr.node = "CaseExpr") =>
    LET results == [i \in 1..Len(TheExpr.args) |-> TheExpr.args[i].result]
        hasElse == "defresult" \in DOMAIN TheExpr
        branches == IF hasElse THEN Append(results, TheExpr.defresult)
                    ELSE results
        someNullable == \E j \in 1..Len(branches) :
                          AtomInfo(branches[j]).nullable
        hasNull == \E j \in 1..Len(TheMembers) : TheMembers[j] = "null"
    IN /\ BranchesAre(TheColumn.types, branches)
       /\ TheColumn.nullable = (~hasElse \/ someNullable)
       /\ ~hasElse => hasNull
       /\ (hasElse /\ ~someNullable) => ~hasNull

C7_Witness ==
  /\ Ok
  /\ lastQuery \in BranchQueries
  /\ TheExpr = CaseWhen(<<IntConst(42), StrConst("abc")>>)
  /\ TheMembers = <<"42", "\"abc\"", "null">>
  /\ TheColumn.nullable

(* The operand queries of a set operation, in source order.                *)
RECURSIVE OperandsOf(_)
OperandsOf(stmt) ==
  IF "larg" \in DOMAIN stmt
  THEN OperandsOf(stmt.larg) \o OperandsOf(stmt.rarg)
  ELSE <<stmt>>

IsSetQuery == lastQuery \in SetQueries /\ "larg" \in DOMAIN TheStmt

OperandColumns(operand) == parseSelectStmt(operand, built).value

(* C8: every result column of a set operation over n operand queries       *)
(* carries n set variants, the j-th being the column of the j-th operand,  *)
(* and the rendered type is a union of n object types.                     *)
C8_OneVariantPerOperand ==
  (Returned /\ IsSetQuery /\ Len(lastTargets) = 1) =>
    LET operands == OperandsOf(TheStmt) IN
    /\ \A i \in 1..Len(lastTargets[1]) :
         /\ Len(lastTargets[1][i].set) = Len(operands)
         /\ \A j \in 1..Len(operands) :
              lastTargets[1][i].set[j] = OperandColumns(operands[j])[i]
    /\ Ok
    /\ Len(lastResult.results[1].objects) = Len(operands)

(* C9: when the operands of a set operation return the same number of      *)
(* columns, so does the result; column i has the name and type of column i *)
(* of the leftmost operand and is nullable iff column i of some operand    *)
(* is.                                                                     *)
C9_SetColumnsFromLeft ==
  (Returned /\ IsSetQuery) =>
    LET operands == OperandsOf(TheStmt)
        analysed == \A j \in 1..Len(operands) :
                      ~IsErr(parseSelectStmt(operands[j], built))
        width == Len(OperandColumns(operands[1]))
    IN (analysed /\ \A j \in 1..Len(operands) :
                      Len(OperandColumns(operands[j])) = width)
       => /\ Len(lastTargets) = 1
          /\ Len(lastTargets[1]) = width
          /\ \A i \in 1..width :
               /\ lastTargets[1][i].name = OperandColumns(operands[1])[i].name
               /\ lastTargets[1][i].type = OperandColumns(operands[1])[i].type
               /\ lastTargets[1][i].nullable =
                    \E j \in 1..Len(operands) :
                      OperandColumns(operands[j])[i].nullable

C9_Witness ==
  /\ Returned /\ IsSetQuery
  /\ Len(OperandsOf(TheStmt)) = 3
  /\ Len(lastTargets) = 1
  /\ Len(lastTargets[1]) = 2
  /\ lastTargets[1][2].nullable
  /\ ~OperandColumns(OperandsOf(TheStmt)[1])[2].nullable
  /\ ~OperandColumns(OperandsOf(TheStmt)[3])[2].nullable

(* The rows of the column query for one table, as result targets.          *)
CatalogColumns(table) ==
  LET rows == SelectSeq(db.columns,
                        LAMBDA row : row.schema = "public" /\ row.table = table)
  IN [i \in 1..Len(rows) |->
        [name |-> rows[i].column, nullable |-> rows[i].nullable,
         type |-> rows[i].type]]

TargetsOf(table) ==
  [i \in 1..Len(table.columns) |->
     [name |-> table.columns[i].k,
      nullable |-> table.columns[i].v.nullable,
      type |-> table.columns[i].v.type]]

RECURSIVE Flatten(_)
Flatten(seqs) ==
  IF Len(seqs) = 0 THEN <<>> ELSE Head(seqs) \o Flatten(Tail(seqs))

RECURSIVE Ascending(_)
Ascending(S) ==
  IF S = {} THEN <<>> ELSE <<Min(S)>> \o Ascending(S \ {Min(S)})

(* The columns a sequence of named columns leaves in an object type: one   *)
(* per name, where the name first occurs, as it last occurs.               *)
Keyed(columns) ==
  LET firsts == {i \in 1..Len(columns) :
                   \A j \in 1..(i - 1) : columns[j].name # columns[i].name}
      order == Ascending(firsts)
  IN [n \in 1..Len(order) |->
        columns[Max({j \in 1..Len(columns) :
                       columns[j].name = columns[order[n]].name})]]

(* C10: SELECT * FROM t yields the columns of t in catalog order with      *)
(* their declared nullability; * yields the columns of the scoped tables   *)
(* in scope order and table order with the nullability of the scope (a     *)
(* name that several tables share is one key of the object type); tbl.*    *)
(* yields the columns of the table scoped as tbl and fails without one.    *)
C10_StarExpansion ==
  /\ (Returned /\ lastQuery \in JoinQueries) =>
       /\ Len(lastTargets) = 1
       /\ lastTargets[1] =
            Keyed(Flatten([i \in 1..Len(Scope) |-> TargetsOf(Scope[i].v)]))
       /\ \A table \in {"a", "c"} :
            TheStmt.fromClause = <<RangeVar(table)>> =>
              lastTargets[1] = CatalogColumns(table)
  /\ (Returned /\ lastQuery \in StarQueries) =>
       LET alias == TheExpr.fields[1].str IN
       IF Has(Scope, alias)
       THEN /\ Len(lastTargets) = 1
            /\ lastTargets[1] = TargetsOf(Get(Scope, alias))
       ELSE Failed /\ lastTargets = <<>>

C10_Witness ==
  /\ Ok /\ lastQuery \in StarQueries
  /\ TheExpr = TableStar("s")
  /\ TheStmt.fromClause =
       <<Join("JOIN_LEFT", RangeVar("a"), SubselectS), RangeVar("c")>>
  /\ lastTargets[1] =
       << [name |-> "id", nullable |-> TRUE, type |-> "int4"],
          [name |-> "y", nullable |-> TRUE, type |-> "text"] >>

(* The scope and context in which the target list of the analysed          *)
(* statement is analysed.                                                  *)
ScopeContext == parseFromClause(TheStmt.fromClause, built)

ColumnsOfItem(target) == parseTargetList(<<target>>, ScopeContext)

(* C11: a target list yields no two columns of one name; a name that       *)
(* several items (star expansions or explicit items) produce is kept once, *)
(* where it first occurs, with the type, nullability and constant of its   *)
(* last occurrence.                                                        *)
C11_OneColumnPerName ==
  (Returned /\ lastQuery \in TargetQueries) =>
    LET items == TheStmt.targetList
        analysed == \A i \in 1..Len(items) : ~IsErr(ColumnsOfItem(items[i]))
        produced == Flatten([i \in 1..Len(items) |->
                               ColumnsOfItem(items[i]).value])
    IN IF analysed
       THEN /\ Len(lastTargets) = 1
            /\ \A i, j \in 1..Len(lastTargets[1]) :
                 lastTargets[1][i].name = lastTargets[1][j].name => i = j
            /\ lastTargets[1] = Keyed(produced)
       ELSE Failed

C11_Witness ==
  /\ Ok
  /\ TheStmt = SelectFrom(<<Target(Star), TargetAs(StrConst("abc"), "x"),
                            TargetAs(IntConst(1), "id")>>,
                          <<RangeVar("a")>>)
  /\ lastTargets[1] =
       << [name |-> "id", nullable |-> FALSE, type |-> "int4",
           constantValue |-> "1"],
          [name |-> "x", nullable |-> FALSE, type |-> "text",
           constantValue |-> "\"abc\""] >>

(* C12: an aliased item is named by its alias; an unaliased item is named  *)
(* only when it is a bare column reference, and an unaliased item of any   *)
(* other kind fails with the missing-alias error.                          *)
C12_AliasRequired ==
  (Returned /\ lastQuery \in AliasQueries) =>
    LET target == TheStmt.targetList[1] IN
    IF IsErr(parseExpression(target.val, ScopeContext)) THEN Failed
    ELSE IF "name" \in DOMAIN target
    THEN Ok /\ Len(lastTargets[1]) = 1 /\ lastTargets[1][1].name = target.name
    ELSE IF target.val.node = "ColumnRef"
    THEN /\ Ok
         /\ Len(lastTargets[1]) = 1
         /\ lastTargets[1][1].name =
              target.val.fields[Len(target.val.fields)].str
    ELSE lastResult = Throw("Alias not provided for result target.")

(* The tables of the scope that have a column of the name.                 *)
Holders(columnName) ==
  {i \in 1..Len(Scope) : Has(Scope[i].v.columns, columnName)}

(* C13: an unqualified column reference whose name is a column of two or   *)
(* more tables of the scope fails as ambiguous; one that succeeds resolves *)
(* to the column of exactly one table.                                     *)
C13_AmbiguousColumnFails ==
  (Returned /\ lastQuery \in ColumnQueries) =>
    LET columnName == TheExpr.fields[1].str
        holders == Holders(columnName)
    IN IF Cardinality(holders) = 1
       THEN /\ Ok
            /\ \A i \in holders :
                 lastTargets[1] =
                   <<[name |-> columnName]
                       @@ Get(Scope[i].v.columns, columnName)>>
       ELSE Failed

(* The relations a statement of RelationStmts names.                       *)
RECURSIVE RelationsOf(_)
RelationsOf(fromItem) ==
  IF fromItem.node = "JoinExpr"
  THEN RelationsOf(fromItem.larg) \cup RelationsOf(fromItem.rarg)
  ELSE {fromItem.relname}

NamedRelations(stmt) ==
  IF stmt.node = "SelectStmt" THEN RelationsOf(stmt.fromClause[1])
  ELSE {stmt.relation.relname}

InCatalog(relname) == Has(Get(built.tablesBySchema, "public"), relname)

(* C14: a statement that names a relation the catalog does not have (in    *)
(* FROM, or as the target of INSERT, UPDATE or DELETE, with or without     *)
(* RETURNING) yields an error, never a result.                             *)
C14_UnknownRelationFails ==
  (Returned /\ lastQuery \in RelationQueries) =>
    ((\E relname \in NamedRelations(TheStmt) : ~InCatalog(relname))
       => Failed)

(* C15: sum, min, max and avg are always nullable; sum, min and max have   *)
(* the type of their argument; avg of interval or float8 has that type,    *)
(* avg of float4 is float8 and any other avg is numeric; count is int8 and *)
(* not nullable.                                                           *)
C15_AggregateTypes ==
  (Returned /\ lastQuery \in AggregateQueries) =>
    LET funcname == TheExpr.funcname[1].str
        argType == parseExpression(TheExpr.args[1], ScopeContext).type
    IN /\ Ok
       /\ Len(lastTargets[1]) = 1
       /\ funcname \in {"sum", "min", "max"} =>
            /\ lastTargets[1][1].nullable
            /\ lastTargets[1][1].type = argType
       /\ funcname = "avg" =>
            /\ lastTargets[1][1].nullable
            /\ lastTargets[1][1].type =
                 (IF argType \in {"interval", "float8"} THEN argType
                  ELSE IF argType = "float4" THEN "float8" ELSE "numeric")
       /\ funcname = "count" =>
            /\ ~lastTargets[1][1].nullable
            /\ lastTargets[1][1].type = "int8"

(* The literal under the casts of an expression of Casts.                  *)
RECURSIVE LiteralOf(_)
LiteralOf(expression) ==
  IF expression.node = "TypeCast" THEN LiteralOf(expression.arg)
  ELSE expression

(* How the source text writes a literal of Casts: a number as its digits,  *)
(* a string between double quotes, and a cast to bool of what reads "t" or *)
(* "f" as true or false.                                                   *)
RECURSIVE Written(_)
Written(expression) ==
  IF expression.node = "TypeCast"
  THEN IF expression.typeName.names = <<"bool">>
          /\ Written(expression.arg) \in {"\"t\"", "\"f\""}
       THEN IF Written(expression.arg) = "\"t\"" THEN "true" ELSE "false"
       ELSE Written(expression.arg)
  ELSE CASE expression.val.kind = "Integer" -> ToString(expression.val.ival)
         [] expression.val.kind = "Float" -> expression.val.str
         [] expression.val.kind = "String" ->
              "\"" \o expression.val.str \o "\""

(* C16: a target that is an integer, float, string or boolean literal,     *)
(* under any number of non-array casts, renders as the literal itself and  *)
(* not as the mapped type of the cast; a bare NULL renders as null.        *)
C16_LiteralsNotWidened ==
  (Returned /\ lastQuery \in LiteralQueries) =>
    /\ Ok
    /\ LiteralOf(TheExpr) # NullConst =>
         /\ TheMembers = <<Written(TheExpr)>>
         /\ TheMembers[1] \notin {"number", "string", "boolean"}
    /\ TheExpr = NullConst => TheMembers = <<"null">>

C16_Witness ==
  /\ Ok
  /\ TheStmt = Select(<<TargetAs(Cast(Cast(StrConst("t"), "bool"), "text"),
                                 "r")>>)
  /\ lastResult.results[1].source = "{ \"r\": true, }"

IsValuesQuery == lastQuery \in ValuesQueries

TheRows ==
  [r \in 1..Len(TheStmt.valuesLists) |-> TheStmt.valuesLists[r].items]

(* What a value of RowValues is: its type tag and whether it is nullable.  *)
ValueInfo(value) ==
  CASE value = IntConst(42) -> [type |-> "int4", nullable |-> FALSE]
    [] value = StrConst("abc") -> [type |-> "text", nullable |-> FALSE]
    [] value = NullConst -> [type |-> "null", nullable |-> TRUE]

(* C17: VALUES with r rows of k values yields k columns, column1 to        *)
(* columnk; column j has one branch per row, in row order, has the type of *)
(* the first row's j-th value, and is nullable iff some row's j-th value   *)
(* is.                                                                     *)
C17_ValuesColumns ==
  (Returned /\ IsValuesQuery
     /\ \A r \in 1..Len(TheRows) : Len(TheRows[r]) = Len(TheRows[1])) =>
    /\ Ok
    /\ Len(lastTargets[1]) = Len(TheRows[1])
    /\ \A j \in 1..Len(TheRows[1]) :
         LET column == lastTargets[1][j] IN
         /\ column.name = "column" \o ToString(j)
         /\ Len(column.types) = Len(TheRows)
         /\ \A r \in 1..Len(TheRows) :
              /\ column.types[r].type = ValueInfo(TheRows[r][j]).type
              /\ column.types[r].nullable = ValueInfo(TheRows[r][j]).nullable
         /\ column.type = ValueInfo(TheRows[1][j]).type
         /\ column.nullable =
              \E r \in 1..Len(TheRows) : ValueInfo(TheRows[r][j]).nullable

C17_Witness ==
  /\ Ok
  /\ TheStmt = ValuesStmt(<< <<IntConst(42), StrConst("abc")>>,
                             <<NullConst, IntConst(42)>> >>)
  /\ lastTargets[1][1].type = "int4"
  /\ lastTargets[1][1].nullable
  /\ ~lastTargets[1][2].nullable
  /\ lastResult.results[1].source =
       "{ \"column1\": 42 | null, \"column2\": \"abc\" | 42, }"

(* What a subject of Subjects is in the scope of table a: the type of its  *)
(* elements when it is an array, its type, and whether it is nullable.     *)
SubjectInfo(arg) ==
  CASE arg = ArrayExpr(<<IntConst(1)>>) ->
         [array |-> TRUE, element |-> "int4", type |-> "int4[]",
          nullable |-> FALSE]
    [] arg = CastArray(Col("x"), "text") ->
         [array |-> TRUE, element |-> "text", type |-> "text[]",
          nullable |-> TRUE]
    [] arg = CastArray(Col("id"), "mood") ->
         [array |-> TRUE, element |-> "mood", type |-> "mood[]",
          nullable |-> FALSE]
    [] arg = Cast(Col("x"), "jsonb") ->
         [array |-> FALSE, type |-> "jsonb", nullable |-> TRUE]
    [] arg = Cast(Col("id"), "json") ->
         [array |-> FALSE, type |-> "json", nullable |-> FALSE]
    [] arg = Col("id") -> [array |-> FALSE, type |-> "int4", nullable |-> FALSE]
    [] arg = Col("x") -> [array |-> FALSE, type |-> "text", nullable |-> TRUE]

(* Whether the bound of a slice is nullable; a bound that is left out is   *)
(* not.                                                                    *)
BoundNullable(indices, bound) ==
  bound \in DOMAIN indices /\ indices[bound] = NullConst

(* C18: one subscript on an array yields, for an element subscript, the    *)
(* element type, always nullable, and for a slice the array type, nullable *)
(* iff the array, the lower or the upper bound is; a subscript on json or  *)
(* jsonb yields any, nullable; more than one subscript on an array, and a  *)
(* subscript on any other type, fail.                                      *)
C18_Subscripts ==
  (Returned /\ lastQuery \in SubscriptQueries) =>
    LET subject == SubjectInfo(TheExpr.arg)
        indirection == TheExpr.indirection
    IN IF subject.array /\ Len(indirection) = 1
       THEN /\ Ok
            /\ IF "is_slice" \in DOMAIN indirection[1]
               THEN /\ TheColumn.type = subject.type
                    /\ TheColumn.nullable =
                         (\/ subject.nullable
                          \/ BoundNullable(indirection[1], "lidx")
                          \/ BoundNullable(indirection[1], "uidx"))
               ELSE /\ TheColumn.type = subject.element
                    /\ TheColumn.nullable
       ELSE IF ~subject.array /\ subject.type \in {"json", "jsonb"}
       THEN Ok /\ TheColumn.type = "any" /\ TheColumn.nullable
       ELSE Failed

C18_Witness ==
  /\ Ok
  /\ lastQuery \in SubscriptQueries
  /\ TheExpr = Indirection(CastArray(Col("id"), "mood"),
                           <<Slice(IntConst(1), NullConst)>>)
  /\ lastResult.results[1].source =
       "{ \"r\": Array<\"sad\" | \"ok\"> | null, }"

(* The first result column of an inner query of Subselects: its type and   *)
(* whether it is nullable.                                                 *)
FirstColumn(subselect) ==
  CASE subselect = Select(<<TargetAs(IntConst(1), "i")>>) ->
         [type |-> "int4", nullable |-> FALSE]
    [] subselect = SelectFrom(<<Target(Col("y")), Target(Col("id"))>>,
                              <<RangeVar("b")>>) ->
         [type |-> "text", nullable |-> FALSE]
    [] subselect = SelectFrom(<<Target(Col("z"))>>, <<RangeVar("c")>>) ->
         [type |-> "float8", nullable |-> TRUE]
    [] subselect = SelectFrom(<<Target(QCol("a", "id"))>>, <<RangeVar("b")>>) ->
         [type |-> "int4", nullable |-> FALSE]
    [] subselect = SelectFrom(<<Target(Col("k")), Target(Col("z"))>>,
                              <<RangeVar("c")>>) ->
         [type |-> "mood", nullable |-> FALSE]
    [] subselect = ValuesStmt(<< <<NullConst>>, <<IntConst(42)>> >>) ->
         [type |-> "null", nullable |-> TRUE]

(* C19: EXISTS and ROWCOMPARE subqueries are bool and not nullable; ANY    *)
(* and ALL are bool and nullable; a scalar subquery has the type of the    *)
(* first column of the inner query and is nullable even when that column   *)
(* is not; an ARRAY subquery has that type with [] and is not nullable;    *)
(* MULTIEXPR is any and not nullable.                                      *)
C19_SubLinkTypes ==
  (Returned /\ lastQuery \in SubLinkQueries) =>
    LET subLinkType == TheExpr.subLinkType
        first == FirstColumn(TheExpr.subselect)
    IN /\ Ok
       /\ TheColumn.type =
            CASE subLinkType \in {"EXISTS_SUBLINK", "ROWCOMPARE_SUBLINK",
                                  "ANY_SUBLINK", "ALL_SUBLINK"} -> "bool"
              [] subLinkType = "EXPR_SUBLINK" -> first.type
              [] subLinkType = "ARRAY_SUBLINK" -> first.type \o "[]"
              [] subLinkType = "MULTIEXPR_SUBLINK" -> "any"
       /\ TheColumn.nullable =
            (subLinkType \in {"ANY_SUBLINK", "ALL_SUBLINK", "EXPR_SUBLINK"})

C19_Witness ==
  /\ Ok
  /\ lastQuery \in SubLinkQueries
  /\ TheExpr = SubLink("EXPR_SUBLINK",
                       SelectFrom(<<Target(Col("k")), Target(Col("z"))>>,
                                  <<RangeVar("c")>>))
  /\ lastResult.results[1].source = "{ \"r\": \"sad\" | \"ok\" | null, }"

IsEnum(tag) == \E i \in 1..Len(db.enums) : db.enums[i].pgType = tag

LabelsOf(tag) ==
  db.enums[CHOOSE i \in 1..Len(db.enums) : db.enums[i].pgType = tag].tsType

(* The entry for a tag by precedence: the typeMap option, then the enums,  *)
(* then the built-in table; the fallback type when there is none.          *)
Resolved(tag) ==
  IF tag \in DOMAIN options.typeMap THEN options.typeMap[tag]
  ELSE IF IsEnum(tag) THEN LabelsOf(tag)
  ELSE IF tag \in DOMAIN DefaultTypeMap THEN DefaultTypeMap[tag]
  ELSE options.fallbackType

TheTag == TheExpr.typeName.names[1]

(* C20 as stated: a tag maps to its typeMap entry when there is one, else  *)
(* to the union of its labels when it is an enum, else to its built-in     *)
(* default, else to the fallback type; an array of the tag maps to Array   *)
(* of that.                                                                *)
C20_MappingPrecedence ==
  (Returned /\ lastQuery \in MappingQueries) =>
    /\ Ok
    /\ TheMembers =
         <<IF TheExpr.typeName.arrayBounds
           THEN "Array<" \o Resolved(TheTag) \o ">"
           ELSE Resolved(TheTag)>>

(* C20 amended: the entry found by that precedence is the mapped type when *)
(* it is not the empty string; a typeMap entry of "" and an enum without   *)
(* labels map to the fallback type, as a tag without any entry does.       *)
C20_MappingPrecedenceNonEmpty ==
  (Returned /\ lastQuery \in MappingQueries) =>
    LET tsType == IF Resolved(TheTag) = "" THEN options.fallbackType
                  ELSE Resolved(TheTag)
    IN /\ Ok
       /\ TheMembers =
            <<IF TheExpr.typeName.arrayBounds
              THEN "Array<" \o tsType \o ">" ELSE tsType>>

C20_Witness ==
  /\ Ok
  /\ lastQuery \in MappingQueries
  /\ TheExpr = CastArray(Col("id"), "line")
  /\ "line" \in DOMAIN options.typeMap
  /\ lastResult.results[1].source = "{ \"r\": Array<Line>, }"

(* The CTE that a body or main query of CteQueries reads, 0 when it reads  *)
(* none.                                                                   *)
ReadCte(stmt) ==
  IF "fromClause" \in DOMAIN stmt
       /\ \E j \in 1..MaxCtes : stmt.fromClause[1].relname = CteName(j)
  THEN CHOOSE j \in 1..MaxCtes : stmt.fromClause[1].relname = CteName(j)
  ELSE 0

TheCtes == TheStmt.withClause.ctes

(* The columns (name, type, nullable) the claim gives to CTE i of ctes,    *)
(* when every CTE reads only CTEs listed before it.                        *)
RECURSIVE CteColumns(_, _)
CteColumns(ctes, i) ==
  LET body == ctes[i].ctequery
      inner == IF ReadCte(body) # 0 THEN CteColumns(ctes, ReadCte(body))
               ELSE IF "fromClause" \in DOMAIN body
               THEN << [name |-> "id", type |-> "int4", nullable |-> FALSE],
                       [name |-> "x", type |-> "text", nullable |-> TRUE] >>
               ELSE << [name |-> "n", type |-> "int4", nullable |-> FALSE] >>
      names == IF "aliascolnames" \in DOMAIN ctes[i]
               THEN ctes[i].aliascolnames ELSE <<>>
  IN [k \in 1..Len(inner) |->
        [inner[k] EXCEPT !.name = IF k <= Len(names) THEN names[k] ELSE @]]

(* C21: in a WITH clause c1..cn the body of ci reads cj for j < i and the  *)
(* main query reads every c1..cn; a body that reads a CTE not listed       *)
(* before it, or a main query that reads a CTE not listed, fails as an     *)
(* unknown table; the columns of a CTE are its result columns, renamed by  *)
(* its list of column names.                                               *)
C21_CtesInOrder ==
  (Returned /\ lastQuery \in CteQueries) =>
    IF \/ \E i \in 1..Len(TheCtes) : ReadCte(TheCtes[i].ctequery) >= i
       \/ ReadCte(TheStmt) > Len(TheCtes)
    THEN Failed /\ lastResult.error = "Unable to find table."
    ELSE LET columns == CteColumns(TheCtes, ReadCte(TheStmt)) IN
         /\ Ok
         /\ Len(lastTargets[1]) = Len(columns)
         /\ \A k \in 1..Len(columns) :
              /\ lastTargets[1][k].name = columns[k].name
              /\ lastTargets[1][k].type = columns[k].type
              /\ lastTargets[1][k].nullable = columns[k].nullable

C21_Witness ==
  /\ Ok
  /\ lastQuery = Query(<<WithSelect(
        << Cte("c1", SelectFrom(<<Target(Col("id")), Target(Col("x"))>>,
                                <<RangeVar("a")>>)),
           CteAs("c2", <<"p">>, FromCte(1)) >>,
        <<Target(Star)>>, <<RangeVar("c2")>>)>>)
  /\ lastResult.results[1].source = "{ \"p\": number, \"x\": string | null, }"

(* The view that the definition of a view of ViewDatabases reads, 0 when   *)
(* it reads none.                                                          *)
ViewRead(view) ==
  LET stmt == view.definition.parsed[1].stmt
      reads(j) == stmt \in {ViewFrom(j), ViewExists(j), ViewScalar(j)}
  IN IF \E j \in 1..MaxViews : reads(j)
     THEN CHOOSE j \in 1..MaxViews : reads(j) ELSE 0

(* Where the view query lists view vj, 0 when it does not.                 *)
PositionOf(views, j) ==
  IF \E i \in 1..Len(views) : views[i].name = ViewName(j)
  THEN CHOOSE i \in 1..Len(views) : views[i].name = ViewName(j) ELSE 0

(* View i reads a view that is not materialized before it.                 *)
Unmaterialized(views, i) ==
  /\ ViewRead(views[i]) # 0
  /\ \/ PositionOf(views, ViewRead(views[i])) = 0
     \/ PositionOf(views, ViewRead(views[i])) >= i

(* The columns the claim gives to view i when every view reads only views  *)
(* materialized before it.                                                 *)
RECURSIVE ViewColumns(_, _)
ViewColumns(views, i) ==
  LET stmt == views[i].definition.parsed[1].stmt
      j == ViewRead(views[i])
  IN IF j = 0
     THEN IF stmt.fromClause[1].relname = "b"
          THEN << [k |-> "id", v |-> [nullable |-> FALSE, type |-> "int4"]],
                  [k |-> "y", v |-> [nullable |-> FALSE, type |-> "text"]] >>
          ELSE << [k |-> "x", v |-> [nullable |-> TRUE, type |-> "text"]] >>
     ELSE IF stmt = ViewFrom(j) THEN ViewColumns(views, PositionOf(views, j))
     ELSE IF stmt = ViewExists(j)
     THEN << [k |-> "e", v |-> [nullable |-> FALSE, type |-> "bool"]] >>
     ELSE << [k |-> "r",
              v |-> [nullable |-> TRUE,
                     type |-> ViewColumns(views,
                                PositionOf(views, j))[1].v.type]] >>

(* C22: views are materialized in the order of the view query, each over   *)
(* the base tables and the views before it, into a table that is not       *)
(* nullable and has one column per result column; when a view reads a view *)
(* that is not materialized before it, construction fails and no generator *)
(* is returned.                                                            *)
C22_ViewsInOrder ==
  /\ pc = "ready" =>
       /\ \A i \in 1..Len(db.views) : ~Unmaterialized(db.views, i)
       /\ \A i \in 1..Len(db.views) :
            Get(Get(catalog, "public"), db.views[i].name) =
              [columns |-> ViewColumns(db.views, i), nullable |-> FALSE]
  /\ (pc = "rejected" /\ thrown # Throw("query failed")) =>
       \E i \in 1..Len(db.views) : Unmaterialized(db.views, i)

(* C22 for the views that read another view in a FROM clause or a scalar   *)
(* subquery only.                                                          *)
NoExists ==
  \A i \in 1..Len(db.views), j \in 1..MaxViews :
    db.views[i].definition.parsed[1].stmt # ViewExists(j)

C22_ViewsInOrderAnalysed == NoExists => C22_ViewsInOrder

(* The expression behind column i of rendered object v: a variant of the   *)
(* column when every column has set variants, else the column itself.      *)
RenderedFrom(targets, v, i) ==
  IF \A k \in 1..Len(targets) : "set" \in DOMAIN targets[k]
  THEN targets[i].set[v] ELSE targets[i]

(* What the claim lists for an expression: per branch, or for the          *)
(* expression itself, the constant value or else the mapped type; then     *)
(* null when the expression is nullable.                                   *)
Listed(expression) ==
  LET ts(e) == IF "constantValue" \in DOMAIN e THEN e.constantValue
               ELSE mapType(built.mapType, e.type)
      listed == IF "types" \in DOMAIN expression
                THEN [j \in 1..Len(expression.types) |->
                        ts(expression.types[j])]
                ELSE <<ts(expression)>>
  IN IF expression.nullable THEN listed \o <<"null">> ELSE listed

FirstAt(list, member) == Min({j \in 1..Len(list) : list[j] = member})

(* C23: a column renders as the union of what is listed for it, each       *)
(* member once and in the order of first occurrence, with null when the    *)
(* column is nullable; a statement without result columns renders as the   *)
(* empty-object type.                                                      *)
C23_ColumnUnions ==
  Ok =>
    LET targets == lastTargets[1]
        objects == lastResult.results[1].objects
    IN /\ Len(targets) = 0 =>
            lastResult.results[1].source = "{[K in any]: never}"
       /\ \A v \in 1..Len(objects) : \A i \in 1..Len(objects[v]) :
            LET members == objects[v][i].members
                expression == RenderedFrom(targets, v, i)
                listed == Listed(expression)
            IN /\ \A m, n \in 1..Len(members) :
                    members[m] = members[n] => m = n
               /\ {members[m] : m \in 1..Len(members)} =
                    {listed[j] : j \in 1..Len(listed)}
               /\ \A m, n \in 1..Len(members) :
                    m < n => FirstAt(listed, members[m])
                               < FirstAt(listed, members[n])
               /\ expression.nullable =>
                    \E m \in 1..Len(members) : members[m] = "null"

C23_Witness ==
  /\ Ok
  /\ lastQuery \in BranchQueries
  /\ TheExpr = Coalesce(<<Col("x"), NullConst, Col("x")>>)
  /\ TheMembers = <<"string", "null">>
  /\ lastResult.results[1].source = "{ \"r\": string | null, }"

(* A statement without result columns.                                     *)
C23_WitnessEmpty ==
  /\ Ok
  /\ lastTargets[1] = <<>>
  /\ lastResult.results[1].source = "{[K in any]: never}"

(* C24: the analysis of a subquery leaves the scope around it as it was:   *)
(* the tables its FROM clause binds and the CTEs its WITH clause defines   *)
(* resolve inside it, and afterwards they resolve neither in the target    *)
(* list of the enclosing query, nor in a sibling subquery, nor in a later  *)
(* FROM item.                                                              *)
C24_SubqueryScope ==
  \A case \in ScopeCases :
    (Returned /\ lastQuery = case.query) =>
      IF case.error = "" THEN Ok
      ELSE Failed /\ lastResult.error = case.error

C24_Witness ==
  /\ Failed
  /\ lastQuery = Query(<<WithSelect(<<Cte("c1", Inner)>>, <<Target(Star)>>,
                                     <<RangeVar("c1"), RangeVar("w")>>)>>)
  /\ lastResult.error = NoTable

(* The enclosing query alone: the subquery resolves t and w.               *)
C24_WitnessInner ==
  /\ Ok
  /\ lastQuery = Query(<<WithSelect(<<Cte("c1", Inner)>>, <<Target(Star)>>,
                                     <<RangeVar("c1")>>)>>)
  /\ lastResult.results[1].source = "{ \"y\": string, }"

(* The columns of the tables of ScopeLeaves, by alias.                     *)
LeafColumns(alias) ==
  CASE alias = "a" ->
         << [name |-> "id", type |-> "int4", nullable |-> FALSE],
            [name |-> "x", type |-> "text", nullable |-> TRUE] >>
    [] alias = "c" ->
         << [name |-> "z", type |-> "float8", nullable |-> TRUE],
            [name |-> "k", type |-> "mood", nullable |-> FALSE] >>
    [] alias = "s" ->
         << [name |-> "id", type |-> "float8", nullable |-> TRUE],
            [name |-> "x", type |-> "mood", nullable |-> FALSE] >>
    [] alias = "q" ->
         << [name |-> "id", type |-> "text", nullable |-> FALSE] >>

HasColumn(alias, column) ==
  \E k \in 1..Len(LeafColumns(alias)) : LeafColumns(alias)[k].name = column

ColumnOf(alias, column) ==
  LeafColumns(alias)[CHOOSE k \in 1..Len(LeafColumns(alias)) :
                       LeafColumns(alias)[k].name = column]

IsNested == TheExpr.node = "SubLink"

TheInner == IF IsNested THEN TheExpr.subselect ELSE TheStmt

TheReference == TheInner.targetList[1].val

(* The scope of the reference: the tables of the enclosing query, then     *)
(* those of its own FROM clause, each in source order.                     *)
TheScope ==
  IF IsNested
  THEN AliasSeq(TheStmt.fromClause, 1) \o AliasSeq(TheInner.fromClause, 1)
  ELSE AliasSeq(TheInner.fromClause, 1)

(* The column the claim resolves the reference to, Undefined when the      *)
(* claim has it fail.                                                      *)
ResolvedColumn ==
  LET fields == TheReference.fields
      holders == {i \in 1..Len(TheScope) : HasColumn(TheScope[i], fields[1].str)}
  IN IF Len(fields) > 2 THEN Undefined
     ELSE IF Len(fields) = 2
     THEN IF (\E i \in 1..Len(TheScope) : TheScope[i] = fields[1].str)
               /\ HasColumn(fields[1].str, fields[2].str)
          THEN ColumnOf(fields[1].str, fields[2].str) ELSE Undefined
     ELSE IF holders = {} THEN Undefined
     ELSE ColumnOf(TheScope[Min(holders)], fields[1].str)

(* C25: an unqualified reference resolves to the column of the first       *)
(* table of the scope that has the name, the tables of the enclosing query *)
(* before those of the FROM clause and each FROM clause in source order,   *)
(* and fails when no table has it; a qualified reference looks only at the *)
(* table under its alias and fails when the alias or the column is absent; *)
(* a reference of more than two parts fails.                               *)
C25_ColumnResolution ==
  (Returned /\ lastQuery \in ResolutionQueries) =>
    IF IsUndefined(ResolvedColumn)
    THEN Failed /\ lastResult.error =
           IF Len(TheReference.fields) > 2
           THEN "Parsing fully qualified column names is not currently supported."
           ELSE "Unable to find column."
    ELSE /\ Ok
         /\ TheColumn.type = ResolvedColumn.type
         /\ ~IsNested => TheColumn.nullable = ResolvedColumn.nullable

(* SELECT (SELECT id r FROM a, q) r FROM s: id is the column of s.          *)
C25_Witness ==
  /\ Ok
  /\ lastQuery \in ResolutionQueries
  /\ IsNested
  /\ TheScope = <<"s", "a", "q">>
  /\ TheReference = Col("id")
  /\ TheColumn.type = "float8"
  /\ lastResult.results[1].source = "{ \"r\": number | null, }"

(* C26: every object type of the union rendered for a set operation has    *)
(* the same keys: column i of every object is keyed by the name of column  *)
(* i of the leftmost operand.                                              *)
C26_VariantKeysFromLeft ==
  (Ok /\ IsSetQuery /\ Len(lastTargets) = 1) =>
    LET operands == OperandsOf(TheStmt)
        objects == lastResult.results[1].objects
    IN \A v \in 1..Len(objects) :
         \A i \in 1..Len(objects[v]) :
           objects[v][i].name = OperandColumns(operands[1])[i].name

TheOperator == TheExpr.name[1].str

LeftType == TheExpr.lexpr.typeName.names[1]

RightType == TheExpr.rexpr.typeName.names[1]

(* C27: every tag t of the numeric family is a number to the operator      *)
(* rules: date + t, t + date and date - t are date; interval * t,          *)
(* t * interval and interval / t are interval; x << t and x >> t have the  *)
(* type of x.                                                              *)
C27_NumericFamilyIsNumber ==
  (Returned /\ lastQuery \in OperatorQueries) =>
    /\ Ok
    /\ (TheOperator = "+" /\ LeftType = "date" /\ RightType \in NumericFamily)
         => TheColumn.type = "date"
    /\ (TheOperator = "+" /\ LeftType \in NumericFamily /\ RightType = "date")
         => TheColumn.type = "date"
    /\ (TheOperator = "-" /\ LeftType = "date" /\ RightType \in NumericFamily)
         => TheColumn.type = "date"
    /\ (TheOperator = "*" /\ LeftType = "interval"
          /\ RightType \in NumericFamily)
         => TheColumn.type = "interval"
    /\ (TheOperator = "*" /\ LeftType \in NumericFamily
          /\ RightType = "interval")
         => TheColumn.type = "interval"
    /\ (TheOperator = "/" /\ LeftType = "interval"
          /\ RightType \in NumericFamily)
         => TheColumn.type = "interval"
    /\ (TheOperator \in {"<<", ">>"} /\ RightType \in NumericFamily)
         => TheColumn.type = LeftType

(* The same for the tags isNumber lists, which leaves out numeric and oid. *)
C27_ListedTagsAreNumber ==
  (Returned /\ lastQuery \in OperatorQueries) =>
    /\ Ok
    /\ (TheOperator = "+" /\ LeftType = "date" /\ isNumber(RightType))
         => TheColumn.type = "date"
    /\ (TheOperator = "+" /\ isNumber(LeftType) /\ RightType = "date")
         => TheColumn.type = "date"
    /\ (TheOperator = "-" /\ LeftType = "date" /\ isNumber(RightType))
         => TheColumn.type = "date"
    /\ (TheOperator = "*" /\ LeftType = "interval" /\ isNumber(RightType))
         => TheColumn.type = "interval"
    /\ (TheOperator = "*" /\ isNumber(LeftType) /\ RightType = "interval")
         => TheColumn.type = "interval"
    /\ (TheOperator = "/" /\ LeftType = "interval" /\ isNumber(RightType))
         => TheColumn.type = "interval"
    /\ (TheOperator \in {"<<", ">>"} /\ isNumber(RightType))
         => TheColumn.type = LeftType
    /\ (TheOperator \in {"<<", ">>"} /\ RightType \in {"numeric", "oid"})
         => TheColumn.type = "bool"
    /\ (TheOperator \in {"+", "-"} /\ LeftType = "date"
          /\ RightType \in {"numeric", "oid"})
         => TheColumn.type = RightType

(* The expressions of the analysed query that carry branches: the result   *)
(* columns and, in a query of ListQueries, the list.                       *)
Branching ==
  {lastTargets[1][i] : i \in {j \in 1..Len(lastTargets[1]) :
                                "types" \in DOMAIN lastTargets[1][j]}}
    \cup (IF lastQuery \in ListQueries
          THEN {parseList(TheExpr.rexpr, ScopeContext)}
          ELSE {})

HasBranches ==
  /\ Ok
  /\ \/ lastQuery \in BranchQueries
     \/ lastQuery \in ValuesQueries
     \/ lastQuery \in ListQueries

(* C28: every branch of an expression that carries branches (CASE,         *)
(* COALESCE, List, VALUES column) has the type of the expression or the    *)
(* type of a bare NULL.                                                    *)
C28_BranchesOfOneType ==
  HasBranches =>
    \A parent \in Branching :
      \A b \in 1..Len(parent.types) :
        parent.types[b].type \in {parent.type, "null"}

(* C28 as amended: an expression that carries branches has the type of     *)
(* its first branch.                                                       *)
C28_TypeOfFirstBranch ==
  HasBranches =>
    \A parent \in Branching :
      /\ Len(parent.types) > 0
      /\ parent.type = parent.types[1].type

C28_Witness ==
  /\ HasBranches /\ lastQuery \in BranchQueries
  /\ TheExpr = CaseWhenElse(<<IntConst(42), Col("x")>>, NullConst)
  /\ TheColumn.type = "int4"
  /\ TheColumn.types[2].type = "text"
  /\ TheColumn.types[3].type = "null"

C28_WitnessList ==
  /\ HasBranches /\ lastQuery \in ListQueries
  /\ TheExpr.rexpr = ListOf(<<StrConst("abc"), IntConst(42)>>)
  /\ \E parent \in Branching :
       parent.type = "text" /\ parent.types[2].type = "int4"

(* The inner query of a query of CarriedQueries and what it yields.        *)
CarriedBody ==
  IF "withClause" \in DOMAIN TheStmt
  THEN TheStmt.withClause.ctes[1].ctequery
  ELSE IF TheStmt.fromClause[1].node = "RangeSubselect"
  THEN TheStmt.fromClause[1].subquery
  ELSE ViewK

CarriedColumns == parseSelectStmt(CarriedBody, built).value

Mapped(column) ==
  IF column.nullable
  THEN unique(<<mapType(built.mapType, column.type), "null">>)
  ELSE <<mapType(built.mapType, column.type)>>

(* C29: a column read through a subselect of FROM, a CTE or a view has the *)
(* name, the type and the nullability of the column of the inner query     *)
(* and nothing else: no constant, no branches, no set variants, and it     *)
(* renders as its mapped type; over a set operation it is nullable iff the *)
(* column of some operand is.                                              *)
C29_OnlyTypeAndNullability ==
  (Ok /\ lastQuery \in CarriedQueries) =>
    LET inner == CarriedColumns
        operands == OperandsOf(CarriedBody)
        objects == lastResult.results[1].objects
    IN /\ Len(objects) = 1
       /\ Len(objects[1]) = Len(lastTargets[1])
       /\ TheExpr = Star => Len(lastTargets[1]) = Len(inner)
       /\ \A i \in 1..Len(lastTargets[1]) :
            LET column == lastTargets[1][i]
                j == IF TheExpr = Star THEN i
                     ELSE CHOOSE q \in 1..Len(inner) :
                            inner[q].name = column.name
            IN /\ DOMAIN column = {"name", "nullable", "type"}
               /\ column.name = inner[j].name
               /\ column.type = inner[j].type
               /\ column.nullable = inner[j].nullable
               /\ column.nullable =
                    \E o \in 1..Len(operands) :
                      OperandColumns(operands[o])[j].nullable
               /\ objects[1][i].members = Mapped(column)

C29_Witness ==
  /\ Ok /\ lastQuery \in CarriedQueries
  /\ TheStmt = SelectFrom(<<Target(Col("x"))>>,
                 <<RangeSubselect(Select(<<TargetAs(IntConst(1), "x")>>),
                                  "s")>>)
  /\ "constantValue" \in DOMAIN CarriedColumns[1]
  /\ lastResult.results[1].source = "{ \"x\": number, }"

C29_WitnessView ==
  /\ Ok /\ lastQuery \in CarriedQueries
  /\ TheStmt = SelectFrom(<<Target(Star)>>, <<RangeVar("k")>>)
  /\ "set" \in DOMAIN CarriedColumns[1]
  /\ "types" \in DOMAIN CarriedColumns[2].set[1]
  /\ lastResult.results[1].source = "{ \"n\": number | null, \"w\": string, }"

C29_WitnessCte ==
  /\ Ok /\ lastQuery \in CarriedQueries
  /\ "withClause" \in DOMAIN TheStmt
  /\ TheExpr = Col("column1")
  /\ "types" \in DOMAIN CarriedColumns[1]
  /\ lastResult.results[1].source = "{ \"column1\": number | null, }"

(* C30: a call, plain or with OVER, of a function the analyser does not    *)
(* know is never a failure: it has the type any and is nullable, whatever  *)
(* its arguments are; an AEXPR_OP expression with an operator the analyser *)
(* does not know always fails.                                             *)
C30_UnknownFunctionAndOperator ==
  (Returned /\ lastQuery \in UnknownQueries) =>
    IF TheExpr.node = "FuncCall"
    THEN /\ Ok
         /\ TheColumn = [name |-> "r", nullable |-> TRUE, type |-> "any"]
         /\ TheMembers = <<"any", "null">>
    ELSE Failed /\ lastTargets = <<>>

C30_Witness ==
  /\ Ok /\ lastQuery \in UnknownQueries
  /\ TheExpr = FuncCallOver("my_rank", <<Col("nope"),
                 AExpr("AEXPR_OP", "<->", Col("id"), IntConst(42))>>)
  /\ IsErr(parseExpression(Col("nope"), ScopeContext))
  /\ TheColumn.type = "any"

C30_WitnessOperator ==
  /\ Failed /\ lastQuery \in UnknownQueries
  /\ TheExpr = AExpr("AEXPR_OP", "##", Col("id"), IntConst(42))
  /\ ~IsErr(parseExpression(Col("id"), ScopeContext))
  /\ lastResult.error = "Parsing operator is not currently supported."

====
